---- MODULE Spec2Model ----
(***************************************************************************)
(* A model of the browser-side BeReal export processor                     *)
(* (src/app/lib/bereal-browser-processor.ts).                              *)
(*                                                                         *)
(* Strings are sequences of tokens: every digit and punctuation mark is a  *)
(* token of its own, a fixed word ("primary", "jpg", a zone identifier) is *)
(* one token.  Instants are milliseconds counted from 00:00:00 UTC of the  *)
(* first day of CalendarDays.                                              *)
(***************************************************************************)
EXTENDS Integers, Sequences, FiniteSets, TLC

VARIABLES
    server,                \* a call of extractZipSafely of the server route: its loop and the file system
    page,                  \* the page component: its state, its request counter, its requests
    exif,                  \* calls of the date and coordinate formatters of the metadata
    jpeg,                  \* a call of addIptcToJpeg: its byte arrays and its position
    zipFiles,              \* zip.files: the entry listing of the uploaded archive
    lookup,                \* a call of findExportRootPrefix and of findImageObject
    inputZip,              \* the uploaded archive: manifest state and manifest entries
    settings,              \* ProcessorSettings
    pc,                    \* position inside processBeRealExport
    filteredPosts,         \* ParsedPost[] after the date filter
    fallbackTimezone,      \* normalizeFallbackTimezone's result
    timezoneOverrides,     \* normalizeTimezoneOverrides' result
    index,                 \* loop index of the running loop (0-based, as in the code)
    cur,                   \* the per-Post locals of the loop body
    warnings,              \* warnings: string[]
    iptcEmbeddingFailed,
    processedSingles,
    combineCandidates,
    singleNameSet,
    combinedFiles,
    combinedNameSet,
    outputZip,             \* the files put into the output archive's root folder
    events,                \* every progress event handed to onProgress, in order
    decoded,               \* every loadImage call, in order
    outcome,               \* "running", a thrown error, or the returned result
    dateBounds             \* what extractExportDateBounds returned

vars == <<server, page, exif, jpeg, zipFiles, lookup, inputZip, settings, pc, filteredPosts, fallbackTimezone, timezoneOverrides,
          index, cur, warnings, iptcEmbeddingFailed, processedSingles,
          combineCandidates, singleNameSet, combinedFiles, combinedNameSet,
          outputZip, events, decoded, outcome, dateBounds>>

(***************************************************************************)
(* Strings                                                                 *)
(***************************************************************************)
DigitChars == <<"0", "1", "2", "3", "4", "5", "6", "7", "8", "9">>

IsDigit(c) == \E i \in 1..10 : DigitChars[i] = c

DigitValue(c) == (CHOOSE i \in 1..10 : DigitChars[i] = c) - 1

\* UTF-16 code unit of the characters that are ever compared.
CharCode(c) ==
    CASE c = " " -> 32
      [] c = "-" -> 45
      [] c = "." -> 46
      [] c = "/" -> 47
      [] IsDigit(c) -> 48 + DigitValue(c)
      [] c = ":" -> 58
      [] c = "T" -> 84
      [] c = "_" -> 95
      [] OTHER -> 120

\* String(value) of a non-negative integer.
RECURSIVE String(_)
String(n) ==
    IF n < 10 THEN <<DigitChars[n + 1]>>
    ELSE String(n \div 10) \o <<DigitChars[(n % 10) + 1]>>

RECURSIVE padStart(_, _, _)
padStart(s, len, c) == IF Len(s) >= len THEN s ELSE padStart(<<c>> \o s, len, c)

pad(value) == padStart(String(value), 2, "0")

\* Number.parseInt(value, 10) of a string of digits.
RECURSIVE parseInt(_)
parseInt(s) ==
    IF Len(s) = 1 THEN DigitValue(s[1])
    ELSE 10 * parseInt(SubSeq(s, 1, Len(s) - 1)) + DigitValue(s[Len(s)])

\* The relational operator < of two strings: code unit by code unit, a proper
\* prefix first.
RECURSIVE StrLess(_, _)
StrLess(a, b) ==
    IF b = <<>> THEN FALSE
    ELSE IF a = <<>> THEN TRUE
    ELSE IF Head(a) = Head(b) THEN StrLess(Tail(a), Tail(b))
    ELSE CharCode(Head(a)) < CharCode(Head(b))

StrGreater(a, b) == StrLess(b, a)

\* String.prototype.trim.
RECURSIVE trimStart(_)
trimStart(s) == IF s # <<>> /\ Head(s) = " " THEN trimStart(Tail(s)) ELSE s

RECURSIVE trimEnd(_)
trimEnd(s) ==
    IF s # <<>> /\ s[Len(s)] = " " THEN trimEnd(SubSeq(s, 1, Len(s) - 1)) ELSE s

trim(s) == trimEnd(trimStart(s))

\* String.prototype.lastIndexOf for a one-character needle: 0-based, -1 if absent.
RECURSIVE lastIndexOf(_, _)
lastIndexOf(s, c) ==
    IF s = <<>> THEN -1
    ELSE IF s[Len(s)] = c THEN Len(s) - 1
    ELSE lastIndexOf(SubSeq(s, 1, Len(s) - 1), c)

\* String.prototype.slice(from) and slice(0, to), 0-based.
sliceFrom(s, from) == SubSeq(s, from + 1, Len(s))
sliceTo(s, to) == SubSeq(s, 1, to)

(***************************************************************************)
(* Dates: the Date object and Intl.DateTimeFormat                          *)
(***************************************************************************)
\* The civil days the model's instants fall on.  Europe/Berlin switches to
\* summer time on the second of them, at 01:00:00 UTC; Australia/Lord_Howe
\* leaves summer time on the last of them, at 15:00:00 UTC of the day before.
CalendarDays ==
    << [year |-> 2024, month |-> 3, day |-> 30],
       [year |-> 2024, month |-> 3, day |-> 31],
       [year |-> 2024, month |-> 4, day |-> 1],
       [year |-> 2024, month |-> 4, day |-> 2],
       [year |-> 2024, month |-> 4, day |-> 3],
       [year |-> 2024, month |-> 4, day |-> 4],
       [year |-> 2024, month |-> 4, day |-> 5],
       [year |-> 2024, month |-> 4, day |-> 6],
       [year |-> 2024, month |-> 4, day |-> 7] >>

MsPerDay == 24 * 60 * 60 * 1000

\* getUTCFullYear, getUTCMonth() + 1, getUTCDate, getUTCHours, ... of an instant.
UtcFields(ms) ==
    LET secs == ms \div 1000
        d    == CalendarDays[(secs \div 86400) + 1]
        r    == secs % 86400
    IN [year |-> d.year, month |-> d.month, day |-> d.day,
        hour |-> r \div 3600, minute |-> (r % 3600) \div 60, second |-> r % 60]

\* Date.UTC(year, month - 1, day, hour, minute, second).
DateUTC(year, month, day, hour, minute, second) ==
    LET i == CHOOSE k \in 1..Len(CalendarDays) :
                 CalendarDays[k] = [year |-> year, month |-> month, day |-> day]
    IN (i - 1) * MsPerDay + ((hour * 60 + minute) * 60 + second) * 1000

\* The zone database behind Intl.DateTimeFormat: the identifiers it accepts ...
ValidTimeZones ==
    {"UTC", "Europe/Berlin", "America/New_York", "America/St_Johns", "Australia/Lord_Howe"}

BerlinDstStart == MsPerDay + 60 * 60 * 1000

LordHoweDstEnd == 7 * MsPerDay + 15 * 60 * 60 * 1000

\* ... and each zone's offset from UTC, in milliseconds, at an instant.
ZoneOffsetMs(timeZone, ms) ==
    CASE timeZone = "UTC" -> 0
      [] timeZone = "Europe/Berlin" ->
            IF ms < BerlinDstStart THEN 60 * 60 * 1000 ELSE 2 * 60 * 60 * 1000
      [] timeZone = "America/New_York" -> -(4 * 60 * 60 * 1000)
      [] timeZone = "America/St_Johns" -> -(150 * 60 * 1000)
      [] timeZone = "Australia/Lord_Howe" ->
            IF ms < LordHoweDstEnd THEN 11 * 60 * 60 * 1000 ELSE 630 * 60 * 1000

\* new Intl.DateTimeFormat("en-US", { timeZone: value }) throws for an unknown zone.
validateTimeZone(value) == value \in { <<z>> : z \in ValidTimeZones }

\* formatter.formatToParts(date): the civil fields of the instant in the zone, as
\* digit strings (2-digit month ... second, hourCycle h23).
FieldsToParts(f) ==
    [year |-> String(f.year), month |-> pad(f.month), day |-> pad(f.day),
     hour |-> pad(f.hour), minute |-> pad(f.minute), second |-> pad(f.second)]

formatToParts(date, timeZone) ==
    FieldsToParts(UtcFields(date + ZoneOffsetMs(timeZone[1], date)))

readDateTimePart(parts, type) == parseInt(parts[type])

\* Math.round(numerator / denominator), denominator > 0.
MathRound(numerator, denominator) == (2 * numerator + denominator) \div (2 * denominator)

\* Lines 177-183: the fields read from the parts; a raw hour of 24 is 0.
HourOf(rawHour) == IF rawHour = 24 THEN 0 ELSE rawHour

ReadDateTimeParts(parts) ==
    [year |-> readDateTimePart(parts, "year"), month |-> readDateTimePart(parts, "month"),
     day |-> readDateTimePart(parts, "day"),
     hour |-> HourOf(readDateTimePart(parts, "hour")),
     minute |-> readDateTimePart(parts, "minute"),
     second |-> readDateTimePart(parts, "second")]

\* Lines 185-196: the fields read as if they were UTC, less the instant, is the offset.
WithOffsetMinutes(date, f) ==
    [year |-> f.year, month |-> f.month, day |-> f.day, hour |-> f.hour,
     minute |-> f.minute, second |-> f.second,
     offsetMinutes |->
        MathRound(DateUTC(f.year, f.month, f.day, f.hour, f.minute, f.second) - date, 60000)]

resolveDateTimeInTimeZone(date, timeZone) ==
    WithOffsetMinutes(date, ReadDateTimeParts(formatToParts(date, timeZone)))

\* `${year}-${pad(month)}-${pad(day)}`
DateString(f) == String(f.year) \o <<"-">> \o pad(f.month) \o <<"-">> \o pad(f.day)

\* `${year}-${pad(month)}-${pad(day)}T${pad(hour)}-${pad(minute)}-${pad(second)}`
TimestampString(f) ==
    String(f.year) \o <<"-">> \o pad(f.month) \o <<"-">> \o pad(f.day) \o <<"T">>
    \o pad(f.hour) \o <<"-">> \o pad(f.minute) \o <<"-">> \o pad(f.second)

formatDateUtc(date) == DateString(UtcFields(date))

formatTimestampUtc(date) == TimestampString(UtcFields(date))

formatDateInTimeZone(date, timeZone) == DateString(resolveDateTimeInTimeZone(date, timeZone))

formatTimestampInTimeZone(date, timeZone) ==
    TimestampString(resolveDateTimeInTimeZone(date, timeZone))

\* Math.abs
Abs(n) == IF n < 0 THEN -n ELSE n

\* Lines 218-224: `${sign}${pad(hours)}${pad(minutes)}`
formatUtcOffset(offsetMinutes) ==
    <<IF offsetMinutes >= 0 THEN "+" ELSE "-">>
    \o pad(Abs(offsetMinutes) \div 60) \o pad(Abs(offsetMinutes) % 60)

\* An offset that is written without its sign.
formatExifUtcOffsetUnsigned(offsetMinutes) ==
    <<"+">> \o pad(Abs(offsetMinutes) \div 60) \o <<":">> \o pad(Abs(offsetMinutes) % 60)

\* Lines 226-232: `${sign}${pad(hours)}:${pad(minutes)}`
formatExifUtcOffset(offsetMinutes) ==
    <<IF offsetMinutes >= 0 THEN "+" ELSE "-">>
    \o pad(Abs(offsetMinutes) \div 60) \o <<":">> \o pad(Abs(offsetMinutes) % 60)

\* `${pad(hour)}${pad(minute)}${pad(second)}${formatUtcOffset(offsetMinutes)}`
IptcTimeString(f) ==
    pad(f.hour) \o pad(f.minute) \o pad(f.second) \o formatUtcOffset(f.offsetMinutes)

formatIptcTimeInTimeZone(date, timeZone) ==
    IptcTimeString(resolveDateTimeInTimeZone(date, timeZone))

formatExifOffsetInTimeZone(date, timeZone) ==
    formatExifUtcOffset(resolveDateTimeInTimeZone(date, timeZone).offsetMinutes)

\* A coordinate is a number of millionths of a degree.
DegreeScale == 1000000

\* toExifDegrees of a value that is not negative: degrees, minutes, and
\* hundredths of seconds, each the numerator of its rational.  In millionths
\* of a degree, seconds * 100 is (fraction * 36 - minutes * 600000) / 100.
ExifDegrees(degrees, fraction, minutes) ==
    <<degrees, minutes, MathRound(fraction * 36 - minutes * 600000, 100)>>

toExifDegrees(value) ==
    ExifDegrees(value \div DegreeScale, value % DegreeScale,
                ((value % DegreeScale) * 60) \div DegreeScale)

\* No call of the formatters yet.
NoExif == [pc |-> "idle", calls |-> <<>>, gps |-> <<>>]

(***************************************************************************)
(* The archive and the manifest                                            *)
(***************************************************************************)
\* The image files of the uploaded archive, by the name a Post refers to them, and
\* those among them the browser can decode.
ArchiveFiles == {"ok.webp", "bad.webp", "lone.webp"}

DecodableFiles == {"ok.webp", "lone.webp"}

\* findImageObject: the archive entry of a logical filename, or "null".
findImageObject(filename) == IF filename \in ArchiveFiles THEN filename ELSE "null"

\* loadImage rejects for bytes the browser cannot decode.
loadImageFails(file) == file \notin DecodableFiles

\* tz-lookup: the zone of a coordinate.  It throws for a latitude outside -90..90
\* and knows zones that an older Intl database does not.
tzLookup(latitude, longitude) ==
    IF latitude < -90 \/ latitude > 90 \/ longitude < -180 \/ longitude > 180
    THEN [threw |-> TRUE, timeZone |-> <<>>]
    ELSE IF latitude = 52 /\ longitude = 13
    THEN [threw |-> FALSE, timeZone |-> <<"Europe/Berlin">>]
    ELSE IF latitude = 40 /\ longitude = -74
    THEN [threw |-> FALSE, timeZone |-> <<"America/New_York">>]
    ELSE [threw |-> FALSE, timeZone |-> <<"America/Ciudad_Juarez">>]

\* A location of the manifest: each coordinate is a finite number, or is missing,
\* or is not a finite number.
IsFiniteNumber(coordinate) == coordinate.kind = "number"

normalizeLocation(location) ==
    IF /\ location.present
       /\ IsFiniteNumber(location.latitude)
       /\ IsFiniteNumber(location.longitude)
    THEN [defined |-> TRUE, latitude |-> location.latitude.value,
          longitude |-> location.longitude.value]
    ELSE [defined |-> FALSE, latitude |-> 0, longitude |-> 0]

(***************************************************************************)
(* The entry listing of the archive                                        *)
(***************************************************************************)
\* A path is a sequence of tokens: the separators "/" and "\", and the names
\* between them, one token each.  toLowerCase maps each token to its lower case.
Lower(token) ==
    CASE token = "Photos"     -> "photos"
      [] token = "POSTS.JSON" -> "posts.json"
      [] token = "Post"       -> "post"
      [] token = "A.webp"     -> "a.webp"
      [] OTHER                -> token

toLowerCase(text) == [i \in 1..Len(text) |-> Lower(text[i])]

\* String.prototype.length, in characters.
TokenLength(token) ==
    CASE token \in {"/", "\\", "."}                         -> 1
      [] token \in {"posts.json", "POSTS.JSON"}              -> 10
      [] token \in {"Photos", "photos", "export", "a.webp", "A.webp", "b.webp", "bereal"} -> 6
      [] token \in {"post", "Post", "data", "wrap"}          -> 4
      [] token = "other"                                     -> 5
      [] OTHER                                               -> 1

RECURSIVE StringLength(_)
StringLength(text) ==
    IF text = <<>> THEN 0 ELSE TokenLength(Head(text)) + StringLength(Tail(text))

endsWith(text, suffix) ==
    Len(suffix) <= Len(text) /\ SubSeq(text, Len(text) - Len(suffix) + 1, Len(text)) = suffix

startsWith(text, prefix) ==
    Len(prefix) <= Len(text) /\ SubSeq(text, 1, Len(prefix)) = prefix

includes(text, part) ==
    \E i \in 1..(Len(text) - Len(part) + 1) : SubSeq(text, i, i + Len(part) - 1) = part

\* normalizePath, replacement by replacement.
BackslashesToSlashes(value) ==
    [i \in 1..Len(value) |-> IF value[i] = "\\" THEN "/" ELSE value[i]]

RECURSIVE CollapseSlashes(_)
CollapseSlashes(value) ==
    IF Len(value) < 2 THEN value
    ELSE IF value[1] = "/" /\ value[2] = "/" THEN CollapseSlashes(Tail(value))
    ELSE <<Head(value)>> \o CollapseSlashes(Tail(value))

StripDotSlash(value) ==
    IF Len(value) >= 2 /\ value[1] = "." /\ value[2] = "/"
    THEN SubSeq(value, 3, Len(value)) ELSE value

RECURSIVE StripLeadingSlashes(_)
StripLeadingSlashes(value) ==
    IF value # <<>> /\ Head(value) = "/" THEN StripLeadingSlashes(Tail(value)) ELSE value

RECURSIVE StripTrailingSlashes(_)
StripTrailingSlashes(value) ==
    IF value # <<>> /\ value[Len(value)] = "/"
    THEN StripTrailingSlashes(SubSeq(value, 1, Len(value) - 1)) ELSE value

normalizePath(value) ==
    StripLeadingSlashes(StripDotSlash(CollapseSlashes(BackslashesToSlashes(value))))

\* basename: what follows the last separator of the normalized path.
basename(value) ==
    sliceFrom(StripTrailingSlashes(normalizePath(value)),
              lastIndexOf(StripTrailingSlashes(normalizePath(value)), "/") + 1)

\* A JSZipObject, by its name and whether it is a directory; and no object.
ZipObject(name, dir) == [name |-> name, dir |-> dir]
NoObject == ZipObject(<<>>, FALSE)

\* Map.prototype.get: the value set last for the key, or no object (or no list).
RECURSIVE byPathGet(_, _)
byPathGet(zipObjects, key) ==
    IF zipObjects = <<>> THEN NoObject
    ELSE IF /\ ~zipObjects[Len(zipObjects)].dir
            /\ toLowerCase(normalizePath(zipObjects[Len(zipObjects)].name)) = key
    THEN zipObjects[Len(zipObjects)]
    ELSE byPathGet(SubSeq(zipObjects, 1, Len(zipObjects) - 1), key)

RECURSIVE byBasenameGet(_, _)
byBasenameGet(zipObjects, key) ==
    IF zipObjects = <<>> THEN <<>>
    ELSE (IF /\ ~Head(zipObjects).dir
             /\ toLowerCase(basename(normalizePath(Head(zipObjects).name))) = key
          THEN <<Head(zipObjects)>> ELSE <<>>)
         \o byBasenameGet(Tail(zipObjects), key)

\* buildFileLookup: the two indexes over the entries that are no directories.
buildFileLookup(files) ==
    [byPath     |-> [key \in {toLowerCase(normalizePath(files[i].name)) :
                                 i \in {j \in 1..Len(files) : ~files[j].dir}}
                        |-> byPathGet(files, key)],
     byBasename |-> [key \in {toLowerCase(basename(normalizePath(files[i].name))) :
                                 i \in {j \in 1..Len(files) : ~files[j].dir}}
                        |-> byBasenameGet(files, key)]]

MapGet(map, key, none) == IF key \in DOMAIN map THEN map[key] ELSE none

\* The result of findExportRootPrefix: null, or a prefix (which may be empty).
NullPrefix == [isNull |-> TRUE, prefix |-> <<>>]
Prefix(path) == [isNull |-> FALSE, prefix |-> path]

\* Lines 324-331: the normalized paths, and those of the files whose path ends
\* with posts.json, in the order of the archive.
AllPaths(files) == [i \in 1..Len(files) |-> normalizePath(files[i].name)]

RECURSIVE PostsCandidates(_)
PostsCandidates(files) ==
    IF files = <<>> THEN <<>>
    ELSE (IF /\ ~Head(files).dir
             /\ endsWith(toLowerCase(normalizePath(Head(files).name)), <<"posts.json">>)
          THEN <<normalizePath(Head(files).name)>> ELSE <<>>)
         \o PostsCandidates(Tail(files))

\* candidate.slice(0, candidate.length - "posts.json".length)
PrefixOf(candidate) == sliceTo(candidate, Len(candidate) - 1)

\* Lines 334-337.
HasPhotos(prefix, allPaths) ==
    \E i \in 1..Len(allPaths) :
       startsWith(toLowerCase(allPaths[i]), toLowerCase(prefix \o <<"Photos", "/">>))

\* Lines 333-340: the first candidate, in the order of the archive, with a Photos
\* folder beside it.
RECURSIVE FirstWithPhotos(_, _)
FirstWithPhotos(candidates, allPaths) ==
    IF candidates = <<>> THEN NullPrefix
    ELSE IF HasPhotos(PrefixOf(Head(candidates)), allPaths) THEN Prefix(PrefixOf(Head(candidates)))
    ELSE FirstWithPhotos(Tail(candidates), allPaths)

\* A fallback that asks for no Photos folder.
HasPhotosAnyway(allPaths) == TRUE

\* Line 342: /(^|\/)photos\//i
HasPhotosSomewhere(allPaths) ==
    \E i \in 1..Len(allPaths) :
       \/ startsWith(toLowerCase(allPaths[i]), <<"photos", "/">>)
       \/ includes(toLowerCase(allPaths[i]), <<"/", "photos", "/">>)

\* Line 348: the first element after a stable sort by length.
BestCandidate(candidates) ==
    candidates[CHOOSE i \in 1..Len(candidates) :
                  \A j \in 1..Len(candidates) :
                     \/ StringLength(candidates[i]) < StringLength(candidates[j])
                     \/ (StringLength(candidates[i]) = StringLength(candidates[j]) /\ i <= j)]

findExportRootPrefix(files) ==
    IF ~FirstWithPhotos(PostsCandidates(files), AllPaths(files)).isNull
    THEN FirstWithPhotos(PostsCandidates(files), AllPaths(files))
    ELSE IF ~HasPhotosSomewhere(AllPaths(files)) \/ Len(PostsCandidates(files)) = 0
    THEN NullPrefix
    ELSE Prefix(PrefixOf(BestCandidate(PostsCandidates(files))))

\* Lines 359-370: the preferred paths, in order.
PreferredPaths(filename, rootPrefix) ==
    <<rootPrefix \o <<"Photos", "/", "post", "/">> \o filename,
      rootPrefix \o <<"Photos", "/", "bereal", "/">> \o filename,
      rootPrefix \o <<"Photos", "/">> \o filename>>

RECURSIVE FirstPreferred(_, _)
FirstPreferred(paths, byPath) ==
    IF paths = <<>> THEN NoObject
    ELSE IF MapGet(byPath, toLowerCase(normalizePath(Head(paths))), NoObject) # NoObject
    THEN MapGet(byPath, toLowerCase(normalizePath(Head(paths))), NoObject)
    ELSE FirstPreferred(Tail(paths), byPath)

\* Array.prototype.find over the matches: the first whose normalized lower-case
\* name includes the part, or no object.
RECURSIVE FindIncluding(_, _)
FindIncluding(matches, part) ==
    IF matches = <<>> THEN NoObject
    ELSE IF includes(toLowerCase(normalizePath(Head(matches).name)), part) THEN Head(matches)
    ELSE FindIncluding(Tail(matches), part)

\* Lines 372-387, given the matches of the basename index.
FromBasenameIndex(matches) ==
    IF Len(matches) = 0 THEN NoObject
    ELSE IF FindIncluding(matches, <<"/", "photos", "/", "post", "/">>) # NoObject
    THEN FindIncluding(matches, <<"/", "photos", "/", "post", "/">>)
    ELSE IF FindIncluding(matches, <<"/", "photos", "/", "bereal", "/">>) # NoObject
    THEN FindIncluding(matches, <<"/", "photos", "/", "bereal", "/">>)
    ELSE matches[1]

\* findImageObject over the two indexes of an entry listing.
findImageObjectIn(filename, rootPrefix, byPath, byBasename) ==
    IF FirstPreferred(PreferredPaths(filename, rootPrefix), byPath) # NoObject
    THEN FirstPreferred(PreferredPaths(filename, rootPrefix), byPath)
    ELSE FromBasenameIndex(MapGet(byBasename, toLowerCase(filename), <<>>))

\* The archive of an input given by the state of its manifest: the manifest and
\* a Photos folder beside it, a Photos folder and no manifest, or a manifest that
\* is found and cannot be read.
PlainArchive ==
    <<ZipObject(<<"posts.json">>, FALSE),
      ZipObject(<<"Photos", "/", "post", "/", "a.webp">>, FALSE)>>

ArchiveWithoutManifest == <<ZipObject(<<"Photos", "/", "post", "/", "a.webp">>, FALSE)>>

\* A manifest named "././posts.json": its normalized path keeps one "./", which
\* the path built from the root prefix loses when it is normalized again.
ArchiveWithLostManifest ==
    <<ZipObject(<<".", "/", ".", "/", "posts.json">>, FALSE),
      ZipObject(<<"Photos", "/", "post", "/", "a.webp">>, FALSE)>>

ArchiveOf(zip) ==
    IF zip.manifest = "noRoot" THEN ArchiveWithoutManifest
    ELSE IF zip.manifest = "noPostsObject" THEN ArchiveWithLostManifest
    ELSE PlainArchive

\* No call of the lookups yet.
NoLookup == [pc |-> "idle", rootPrefix |-> NullPrefix, filename |-> <<>>,
             imageObject |-> NoObject]

(***************************************************************************)
(* Timezone settings                                                       *)
(***************************************************************************)
\* The thrown Error, by what it says.
Thrown(kind, row) == [ok |-> FALSE, error |-> [kind |-> kind, row |-> row]]

\* The null of the code is the empty string here: the code reads a zone it holds
\* only by its truthiness, and a zone is never empty.
normalizeFallbackTimezone(fallback) ==
    LET trimmed == trim(fallback)
    IN IF trimmed = <<>> THEN [ok |-> TRUE, value |-> <<>>]
       ELSE IF ~validateTimeZone(trimmed) THEN Thrown("fallbackInvalid", 0)
       ELSE [ok |-> TRUE, value |-> trimmed]

\* /^\d{4}-\d{2}-\d{2}$/
isIsoDateString(value) ==
    /\ Len(value) = 10
    /\ \A i \in {1, 2, 3, 4, 6, 7, 9, 10} : IsDigit(value[i])
    /\ value[5] = "-"
    /\ value[8] = "-"

\* One pass of normalizeTimezoneOverrides' loop over overrides[index..], 1-based,
\* with the rows accepted so far.
RECURSIVE normalizeTimezoneOverridesFrom(_, _, _)
normalizeTimezoneOverridesFrom(overrides, i, normalized) ==
    IF i > Len(overrides) THEN [ok |-> TRUE, value |-> normalized]
    ELSE
      LET override  == overrides[i]
          startDate == trim(override.startDate)
          endDate   == trim(override.endDate)
          timeZone  == trim(override.timeZone)
      IN IF startDate = <<>> /\ endDate = <<>> /\ timeZone = <<>>
         THEN normalizeTimezoneOverridesFrom(overrides, i + 1, normalized)
         ELSE IF timeZone = <<>> THEN Thrown("overrideMissingTimezone", i)
         ELSE IF ~validateTimeZone(timeZone) THEN Thrown("overrideInvalidTimezone", i)
         ELSE IF startDate # <<>> /\ ~isIsoDateString(startDate)
              THEN Thrown("overrideStartInvalid", i)
         ELSE IF endDate # <<>> /\ ~isIsoDateString(endDate)
              THEN Thrown("overrideEndInvalid", i)
         ELSE IF startDate # <<>> /\ endDate # <<>> /\ StrGreater(startDate, endDate)
              THEN Thrown("overrideStartAfterEnd", i)
         ELSE normalizeTimezoneOverridesFrom(overrides, i + 1,
                  Append(normalized, [startDate |-> startDate, endDate |-> endDate,
                                      timeZone |-> timeZone]))

\* A normalized span keeps "" as null: both are falsy where the code reads them.
normalizeTimezoneOverrides(overrides) ==
    normalizeTimezoneOverridesFrom(overrides, 1, <<>>)

\* A test that passes over a span whose first or last day is the local date.
OverrideCoversExclusive(override, localDateInOverrideZone) ==
    /\ ~(override.startDate # <<>> /\ ~StrGreater(localDateInOverrideZone, override.startDate))
    /\ ~(override.endDate # <<>> /\ ~StrLess(localDateInOverrideZone, override.endDate))

\* Lines 888-893: a span is passed over when the local date lies before its start
\* or after its end.
OverrideCovers(override, localDateInOverrideZone) ==
    /\ ~(override.startDate # <<>> /\ StrLess(localDateInOverrideZone, override.startDate))
    /\ ~(override.endDate # <<>> /\ StrGreater(localDateInOverrideZone, override.endDate))

\* A scan that stops at the first row that covers the instant.
RECURSIVE findTimezoneFromOverridesFirst(_, _, _, _)
findTimezoneFromOverridesFirst(takenAt, overrides, i, matchedTimeZone) ==
    IF i > Len(overrides) THEN matchedTimeZone
    ELSE IF OverrideCovers(overrides[i], formatDateInTimeZone(takenAt, overrides[i].timeZone))
    THEN overrides[i].timeZone
    ELSE findTimezoneFromOverridesFirst(takenAt, overrides, i + 1, matchedTimeZone)

\* The loop of findTimezoneFromOverrides from row i on; a later row that covers
\* the instant replaces the match.
RECURSIVE findTimezoneFromOverridesFrom(_, _, _, _)
findTimezoneFromOverridesFrom(takenAt, overrides, i, matchedTimeZone) ==
    IF i > Len(overrides) THEN matchedTimeZone
    ELSE
      findTimezoneFromOverridesFrom(takenAt, overrides, i + 1,
          IF OverrideCovers(overrides[i], formatDateInTimeZone(takenAt, overrides[i].timeZone))
          THEN overrides[i].timeZone
          ELSE matchedTimeZone)

findTimezoneFromOverrides(takenAt, overrides) ==
    findTimezoneFromOverridesFrom(takenAt, overrides, 1, <<>>)

\* A warning string, by its parts.
Warning(kind, timestamp, role, timeZone, reason) ==
    [kind |-> kind, timestamp |-> timestamp, role |-> role, timeZone |-> timeZone,
     reason |-> reason]

\* A resolver that falls back to UTC where the code throws.
ResolveWithoutLocationLenient(overrideTimezone, fallback) ==
    IF overrideTimezone # <<>>
    THEN [ok |-> TRUE, value |-> overrideTimezone, pushed |-> <<>>]
    ELSE [ok |-> TRUE, value |-> IF fallback = <<>> THEN <<"UTC">> ELSE fallback,
          pushed |-> <<>>]

\* A resolver that throws on a failed lookup whether or not a fallback is set.
ResolveWithLocationStrict(takenAt, looked, fallback) ==
    IF ~looked.threw /\ validateTimeZone(looked.timeZone)
    THEN [ok |-> TRUE, value |-> looked.timeZone, pushed |-> <<>>]
    ELSE Thrown("zoneLookup", 0)

\* resolvePostTimezone: the zone, or the Error thrown; pushed holds the warnings
\* it pushed.
\* Lines 908-919: a Post without location.
ResolveWithoutLocation(overrideTimezone, fallback) ==
    IF overrideTimezone # <<>>
    THEN [ok |-> TRUE, value |-> overrideTimezone, pushed |-> <<>>]
    ELSE IF fallback = <<>> THEN Thrown("zoneNoLocation", 0)
    ELSE [ok |-> TRUE, value |-> fallback, pushed |-> <<>>]

\* Lines 921-942: a Post with a location, given what tzLookup did.
ResolveWithLocation(takenAt, looked, fallback) ==
    IF ~looked.threw /\ validateTimeZone(looked.timeZone)
    THEN [ok |-> TRUE, value |-> looked.timeZone, pushed |-> <<>>]
    ELSE IF fallback # <<>>
    THEN [ok |-> TRUE, value |-> fallback,
          pushed |-> <<Warning("fallbackUsed", formatTimestampUtc(takenAt),
                               "", fallback, "")>>]
    ELSE Thrown("zoneLookup", 0)

\* A resolver that asks the override spans for a located Post whose lookup failed.
resolvePostTimezoneSpansOnFailure(takenAt, location, overrides, fallback) ==
    IF ~location.defined
    THEN ResolveWithoutLocation(findTimezoneFromOverrides(takenAt, overrides), fallback)
    ELSE IF /\ findTimezoneFromOverrides(takenAt, overrides) # <<>>
            /\ LET looked == tzLookup(location.latitude, location.longitude)
               IN  looked.threw \/ ~validateTimeZone(looked.timeZone)
    THEN [ok |-> TRUE, value |-> findTimezoneFromOverrides(takenAt, overrides),
          pushed |-> <<>>]
    ELSE ResolveWithLocation(takenAt, tzLookup(location.latitude, location.longitude),
                             fallback)

resolvePostTimezone(takenAt, location, overrides, fallback) ==
    IF ~location.defined
    THEN ResolveWithoutLocation(findTimezoneFromOverrides(takenAt, overrides), fallback)
    ELSE ResolveWithLocation(takenAt, tzLookup(location.latitude, location.longitude),
                             fallback)

(***************************************************************************)
(* Output names                                                            *)
(***************************************************************************)
SuffixedName(stem, extension, counter) == stem \o <<"_">> \o String(counter) \o extension

\* The while loop of getUniqueFilename.
RECURSIVE FirstFreeCounter(_, _, _, _)
FirstFreeCounter(stem, extension, used, counter) ==
    IF SuffixedName(stem, extension, counter) \in used
    THEN FirstFreeCounter(stem, extension, used, counter + 1)
    ELSE counter

\* getUniqueFilename(candidate, used): the name it returns; it adds that name to used.
FirstFreeName(stem, extension, used) ==
    SuffixedName(stem, extension, FirstFreeCounter(stem, extension, used, 1))

\* Lines 396-404, given the index of the last dot.
UniqueNameAtDot(candidate, dotIndex, used) ==
    FirstFreeName(IF dotIndex = -1 THEN candidate ELSE sliceTo(candidate, dotIndex),
                  IF dotIndex = -1 THEN <<>> ELSE sliceFrom(candidate, dotIndex),
                  used)

\* getUniqueFilename without its look at the names in use.
getUniqueFilenameUnchecked(candidate, used) == candidate

getUniqueFilename(candidate, used) ==
    IF candidate \notin used THEN candidate
    ELSE UniqueNameAtDot(candidate, lastIndexOf(candidate, "."), used)

ExtensionOf(effectiveFormat) == IF effectiveFormat = "png" THEN <<".", "png">> ELSE <<".", "jpg">>

(***************************************************************************)
(* Image conversion and metadata                                           *)
(***************************************************************************)
\* A Blob, by what it was made from: kind "single" or "combined", the archive files
\* it shows (base first), its format, and the metadata written into it.
Blob(kind, sources, format, metadata) ==
    [kind |-> kind, sources |-> sources, format |-> format, metadata |-> metadata]

NoFile == [name |-> <<>>, blob |-> Blob("none", <<>>, "", "")]

\* The byte length of the IPTC payload buildIptcPayload builds: datasets 90, 55
\* (YYYYMMDD), 60 (hhmmss+hhmm) and, for a caption that is not blank, 120.
IptcPayloadLength(caption) ==
    (5 + 3) + (5 + 8) + (5 + 11)
    + (IF caption.isString /\ caption.bytes > 0 THEN 5 + caption.bytes ELSE 0)

\* addIptcToJpeg throws when the caption does not fit a dataset (buildIptcDataset)
\* or the segment does not fit a JPEG segment (buildIptcApp13Segment).
addIptcToJpegThrows(caption) ==
    LET resourceSize   == IptcPayloadLength(caption)
        payloadPadding == IF resourceSize % 2 = 0 THEN 0 ELSE 1
        segmentLength  == 14 + 4 + 2 + 2 + 4 + resourceSize + payloadPadding + 2
    IN \/ (caption.isString /\ caption.bytes > 65535)
       \/ segmentLength > 65535

\* A catch that keeps the EXIF-only bytes and reports success.
addMetadataToJpegUnflagged(blob, caption) ==
    IF addIptcToJpegThrows(caption)
    THEN [blob |-> [blob EXCEPT !.metadata = "exif"], iptcEmbedded |-> TRUE]
    ELSE [blob |-> [blob EXCEPT !.metadata = "exif+iptc"], iptcEmbedded |-> TRUE]

\* addMetadataToJpeg: EXIF always, IPTC if it can be spliced in.
addMetadataToJpeg(blob, caption) ==
    IF addIptcToJpegThrows(caption)
    THEN [blob |-> [blob EXCEPT !.metadata = "exif"], iptcEmbedded |-> FALSE]
    ELSE [blob |-> [blob EXCEPT !.metadata = "exif+iptc"], iptcEmbedded |-> TRUE]

(***************************************************************************)
(* The page component: handleFile and its date-bounds requests             *)
(***************************************************************************)
\* What extractExportDateBounds settles to for a file the user selected: the
\* bounds of the export, null for an export without a dated Post, or a
\* rejection for a file that is no export.
PageBounds(earliestDate, latestDate) ==
    [kind |-> "bounds", earliestDate |-> earliestDate, latestDate |-> latestDate]

PageNull == [kind |-> "null", earliestDate |-> "", latestDate |-> ""]

PageRejected == [kind |-> "rejected", earliestDate |-> "", latestDate |-> ""]

ExportDateBoundsOf(file) ==
    CASE file = "march.zip" -> PageBounds("2024-03-30", "2024-03-31")
      [] file = "april.zip" -> PageBounds("2024-04-01", "2024-04-07")
      [] file = "undated.zip" -> PageNull
      [] OTHER -> PageRejected

\* A continuation that takes every request for the current one.
IsAnyRequest(current, requestId) == TRUE

\* Lines 267, 287 and 296: dateBoundsRequestIdRef.current === requestId.
IsCurrentRequest(current, requestId) == current = requestId

\* Lines 87-106: the state of the component when it mounts.  requests holds, by
\* request id, the file of each call of handleFile and whether the call still
\* awaits extractExportDateBounds.
NoPage ==
    [requestId |-> 0, file |-> "null", dateBounds |-> PageNull,
     sinceDate |-> "", endDate |-> "", isDetectingDateBounds |-> FALSE,
     requests |-> <<>>]

(***************************************************************************)
(* The server route: extractZipSafely                                      *)
(***************************************************************************)
\* A path is a sequence of segments and a segment is a sequence of tokens, so
\* that one segment can begin with the whole of another.  The string of a path:
\* "/" for the root, else each segment after a "/".
RECURSIVE PathString(_)
PathString(segments) ==
    IF segments = <<>> THEN <<>>
    ELSE <<"/">> \o Head(segments) \o PathString(Tail(segments))

PathText(segments) == IF segments = <<>> THEN <<"/">> ELSE PathString(segments)

\* The segments of a name: the tokens between its "/" tokens.
RECURSIVE SplitSegments(_, _)
SplitSegments(name, segment) ==
    IF name = <<>> THEN <<segment>>
    ELSE IF Head(name) = "/" THEN <<segment>> \o SplitSegments(Tail(name), <<>>)
    ELSE SplitSegments(Tail(name), Append(segment, Head(name)))

\* path.resolve walks the segments: "" and "." stay, ".." goes up, and no
\* step leaves the root.
RECURSIVE WalkSegments(_, _)
WalkSegments(at, segments) ==
    IF segments = <<>> THEN at
    ELSE IF Head(segments) \in {<<>>, <<".">>} THEN WalkSegments(at, Tail(segments))
    ELSE IF Head(segments) = <<"..">>
    THEN WalkSegments(IF at = <<>> THEN at ELSE SubSeq(at, 1, Len(at) - 1), Tail(segments))
    ELSE WalkSegments(Append(at, Head(segments)), Tail(segments))

\* path.resolve(baseDir, entryName) for an absolute baseDir: an absolute name
\* replaces the base.
pathResolve(baseDir, entryName) ==
    IF entryName # <<>> /\ Head(entryName) = "/"
    THEN WalkSegments(<<>>, SplitSegments(entryName, <<>>))
    ELSE WalkSegments(baseDir, SplitSegments(entryName, <<>>))

\* A test of whole segments: the base itself or a path below it.
isSafeEntryBySegments(baseDir, entryName) ==
    /\ Len(pathResolve(baseDir, entryName)) >= Len(baseDir)
    /\ SubSeq(pathResolve(baseDir, entryName), 1, Len(baseDir)) = baseDir

\* Lines 59-62: resolved.startsWith(path.resolve(baseDir)), on the strings.
isSafeEntry(baseDir, entryName) ==
    startsWith(PathText(pathResolve(baseDir, entryName)), PathText(pathResolve(baseDir, <<>>)))

\* path.dirname of a resolved path.
pathDirname(segments) ==
    IF segments = <<>> THEN segments ELSE SubSeq(segments, 1, Len(segments) - 1)

\* The path and the directories above it.
PathAndAbove(segments) == {SubSeq(segments, 1, k) : k \in 0..Len(segments)}

\* fs.mkdir(target, { recursive: true }) rejects when the path or a directory
\* above it is a file; else the path and the missing directories above it exist.
MkdirRejects(files, target) == PathAndAbove(target) \cap files # {}

\* fs.writeFile(target, data) rejects when the path is a directory.
WriteFileRejects(dirs, target) == target \in dirs

\* Line 306: the temporary directory of a job, fs.mkdtemp(os.tmpdir() + "/bereal-").
DestDir == << <<"tmp">>, <<"bereal-", "Ab12Cd">> >>

\* The file system before extraction, and no call of extractZipSafely yet.
NoServer ==
    [pc |-> "idle", entries |-> <<>>, i |-> 0, extractedCount |-> 0, progress |-> <<>>,
     dirs |-> PathAndAbove(DestDir), files |-> {}]

(***************************************************************************)
(* JPEG byte streams and the IPTC segment                                  *)
(***************************************************************************)
\* A Uint8Array is a sequence of bytes; data[i] of the code is At(data, i).
At(data, i) == data[i + 1]

\* A slice that leaves out the byte at its start.
SliceFromNext(data, from) == SubSeq(data, from + 2, Len(data))

\* array.slice(from), array.slice(0, to)
SliceFrom(data, from) == SubSeq(data, from + 1, Len(data))
SliceTo(data, to) == SubSeq(data, 1, to)

\* concatByteArrays of three parts.
concatByteArrays(a, b, c) == a \o b \o c

\* The low byte of the value whatever the shift.
ByteOfLow(value, shift) == value % 256

\* (value >> shift) & 0xff, for a value that is not negative.
ByteOf(value, shift) == (value \div (2 ^ shift)) % 256

\* textEncoder.encode("Photoshop 3.0\u0000") and textEncoder.encode("8BIM")
photoshopHeader == <<80, 104, 111, 116, 111, 115, 104, 111, 112, 32, 51, 46, 48, 0>>
resourceSignature == <<56, 66, 73, 77>>

\* 0xffff, the largest length a JPEG segment can state.
MaxSegmentLength == 65535

\* A segment built whatever its length.
SegmentTooLargeNever(segmentLength) == FALSE

\* Line 490: segmentLength > 0xffff
SegmentTooLarge(segmentLength) == segmentLength > MaxSegmentLength

\* Lines 465-487: the bytes that follow the segment's length field.
App13Payload(iptcPayload) ==
    photoshopHeader \o resourceSignature \o <<4, 4>> \o <<0, 0>>
    \o <<ByteOf(Len(iptcPayload), 24), ByteOf(Len(iptcPayload), 16),
         ByteOf(Len(iptcPayload), 8), ByteOf(Len(iptcPayload), 0)>>
    \o iptcPayload
    \o (IF Len(iptcPayload) % 2 = 0 THEN <<>> ELSE <<0>>)

\* Lines 489-499 of buildIptcApp13Segment, for the bytes after the length field.
SegmentOf(app13Payload) ==
    IF SegmentTooLarge(Len(app13Payload) + 2)
    THEN [threw |-> TRUE, error |-> "segmentTooLarge", value |-> <<>>]
    ELSE [threw |-> FALSE, error |-> "",
          value |-> <<255, 237, ByteOf(Len(app13Payload) + 2, 8),
                      ByteOf(Len(app13Payload) + 2, 0)>> \o app13Payload]

buildIptcApp13Segment(iptcPayload) == SegmentOf(App13Payload(iptcPayload))

\* Line 503: the stream does not begin with a Start-of-Image marker.
InvalidJpegStream(jpegData) ==
    Len(jpegData) < 4 \/ At(jpegData, 0) # 255 \/ At(jpegData, 1) # 216

\* Lines 514-516: the last of the 0xFF bytes at markerOffset.
RECURSIVE SkipFill(_, _)
SkipFill(jpegData, markerOffset) ==
    IF markerOffset + 1 < Len(jpegData) /\ At(jpegData, markerOffset + 1) = 255
    THEN SkipFill(jpegData, markerOffset + 1)
    ELSE markerOffset

\* A length read with the low byte first.
SegmentLengthLittleEndian(jpegData, markerOffset) ==
    At(jpegData, markerOffset + 3) * 256 + At(jpegData, markerOffset + 2)

\* Line 534: (jpegData[markerOffset + 2] << 8) | jpegData[markerOffset + 3]
SegmentLengthAt(jpegData, markerOffset) ==
    At(jpegData, markerOffset + 2) * 256 + At(jpegData, markerOffset + 3)

\* What one pass of the loop of lines 509-543 does, by its outcome.
Return(markerOffset) == [kind |-> "return", offset |-> markerOffset, error |-> ""]
Continue(offset) == [kind |-> "continue", offset |-> offset, error |-> ""]
Throw(error) == [kind |-> "throw", offset |-> 0, error |-> error]

\* Lines 521-542: the pass from the marker byte on.
AtMarker(jpegData, markerOffset, marker) ==
    IF marker = 218 \/ marker = 217 THEN Return(markerOffset)
    ELSE IF marker = 1 \/ (marker >= 208 /\ marker <= 215) THEN Continue(markerOffset + 2)
    ELSE IF markerOffset + 3 >= Len(jpegData) THEN Throw("truncatedSegment")
    ELSE IF SegmentLengthAt(jpegData, markerOffset) < 2 THEN Throw("invalidSegmentLength")
    ELSE IF markerOffset + 2 + SegmentLengthAt(jpegData, markerOffset) > Len(jpegData)
    THEN Throw("segmentExceedsFile")
    ELSE Continue(markerOffset + 2 + SegmentLengthAt(jpegData, markerOffset))

\* Lines 517-519: a run of 0xFF bytes that reaches the end of the stream leaves
\* the loop, and line 545 throws.
AfterFill(jpegData, markerOffset) ==
    IF markerOffset + 1 >= Len(jpegData) THEN Throw("noInsertionPoint")
    ELSE AtMarker(jpegData, markerOffset, At(jpegData, markerOffset + 1))

\* One pass of the loop at offset; the loop that is over throws (line 545).
LoopPass(jpegData, offset) ==
    IF ~(offset + 1 < Len(jpegData)) THEN Throw("noInsertionPoint")
    ELSE IF At(jpegData, offset) # 255 THEN Throw("malformedMarker")
    ELSE AfterFill(jpegData, SkipFill(jpegData, offset))

\* No call of addIptcToJpeg yet.
NoJpeg == [pc |-> "idle", jpegData |-> <<>>, iptcPayload |-> <<>>, app13Segment |-> <<>>,
           offset |-> 0, error |-> "", merged |-> <<>>]

(***************************************************************************)
(* processBeRealExport                                                     *)
(***************************************************************************)
Min(a, b) == IF a < b THEN a ELSE b
Max(a, b) == IF a > b THEN a ELSE b

\* The event emitProgress hands to onProgress; percent is numerator / denominator.
ProgressEvent(stage, current, total, numerator, denominator) ==
    [stage |-> stage, current |-> current, total |-> total,
     percent |-> Max(0, Min(100, MathRound(numerator, denominator)))]

Running == [kind |-> "running"]
Failed(error) == [kind |-> "error", error |-> error]

NoLocation == [present |-> FALSE, latitude |-> [kind |-> "missing", value |-> 0],
               longitude |-> [kind |-> "missing", value |-> 0]]

NoCur == [takenAt |-> 0, location |-> normalizeLocation(NoLocation),
          caption |-> [isString |-> FALSE, bytes |-> 0], timeZone |-> <<>>,
          timestamp |-> <<>>, primaryObject |-> "null", secondaryObject |-> "null",
          role |-> "primary", primaryFile |-> NoFile, secondaryFile |-> NoFile]

\* Lines 966-975 and 751-761: the root is looked up, then the manifest under it.
\* The result is "noRoot", "noPostsObject", or what reading the manifest gives.
ReadManifest(rootPrefix, byPath, zip) ==
    IF rootPrefix.isNull THEN "noRoot"
    ELSE IF MapGet(byPath, toLowerCase(normalizePath(rootPrefix.prefix \o <<"posts.json">>)),
                   NoObject) = NoObject
    THEN "noPostsObject"
    ELSE zip.manifest

\* Lines 963-983: the scanning event, then the manifest is located, read and parsed.
LoadManifest ==
    /\ pc = "start"
    /\ events' = Append(events, ProgressEvent("scanning", 0, 0, 0, 1))
    /\ \E manifest \in {ReadManifest(findExportRootPrefix(zipFiles),
                                     buildFileLookup(zipFiles).byPath, inputZip)} :
          IF manifest \in {"noRoot", "noPostsObject", "badJson"}
          THEN /\ pc' = "failed"
               /\ outcome' = Failed([kind |-> manifest, row |-> 0])
          ELSE /\ pc' = "filter"
               /\ outcome' = outcome
    /\ UNCHANGED <<server, page, exif, jpeg, zipFiles, lookup, dateBounds, inputZip, settings, filteredPosts, fallbackTimezone, timezoneOverrides,
                   index, cur, warnings, iptcEmbeddingFailed, processedSingles,
                   combineCandidates, singleNameSet, combinedFiles, combinedNameSet,
                   outputZip, decoded>>

\* parsePosts: a manifest that is no array has no entries.
parsePosts(zip) == IF zip.manifest = "ok" THEN zip.posts ELSE <<>>

\* A filter that passes over an entry dated exactly sinceDate or endDate.
DateWithinBoundsExclusive(takenDate, sinceDate, endDate) ==
    /\ ~(sinceDate # <<>> /\ ~StrGreater(takenDate, sinceDate))
    /\ ~(endDate # <<>> /\ ~StrLess(takenDate, endDate))

\* Lines 999-1004: an entry is passed over when its date lies before sinceDate or
\* after endDate.
DateWithinBounds(takenDate, sinceDate, endDate) ==
    /\ ~(sinceDate # <<>> /\ StrLess(takenDate, sinceDate))
    /\ ~(endDate # <<>> /\ StrGreater(takenDate, endDate))

\* Lines 990-1004: an entry without takenAt, or with one that is no date, is
\* passed over too.
KeepsEntry(entry, sinceDate, endDate) ==
    /\ entry.takenAt.kind = "instant"
    /\ DateWithinBounds(formatDateUtc(entry.takenAt.ms), sinceDate, endDate)

\* A filter loop that puts each kept entry in front of those kept before it.
RECURSIVE FilterPostsFromReversed(_, _, _, _, _)
FilterPostsFromReversed(entries, i, sinceDate, endDate, kept) ==
    IF i > Len(entries) THEN kept
    ELSE FilterPostsFromReversed(entries, i + 1, sinceDate, endDate,
             IF KeepsEntry(entries[i], sinceDate, endDate)
             THEN <<[entry |-> entries[i], takenAt |-> entries[i].takenAt.ms]>> \o kept
             ELSE kept)

\* The loop of lines 989-1007 from entry i on.
RECURSIVE FilterPostsFrom(_, _, _, _, _)
FilterPostsFrom(entries, i, sinceDate, endDate, kept) ==
    IF i > Len(entries) THEN kept
    ELSE FilterPostsFrom(entries, i + 1, sinceDate, endDate,
             IF KeepsEntry(entries[i], sinceDate, endDate)
             THEN Append(kept, [entry |-> entries[i], takenAt |-> entries[i].takenAt.ms])
             ELSE kept)

\* Lines 985-1007.
FilterPosts ==
    /\ pc = "filter"
    /\ filteredPosts' = FilterPostsFrom(parsePosts(inputZip), 1, settings.sinceDate,
                                        settings.endDate, <<>>)
    /\ pc' = "validate"
    /\ UNCHANGED <<server, page, exif, jpeg, zipFiles, lookup, dateBounds, inputZip, settings, fallbackTimezone, timezoneOverrides,
                   index, cur, warnings, iptcEmbeddingFailed, processedSingles,
                   combineCandidates, singleNameSet, combinedFiles, combinedNameSet,
                   outputZip, events, decoded, outcome>>

\* Lines 1009-1016: the timezone settings are normalized, then the first
\* processing event is emitted.
ValidateSettings ==
    /\ pc = "validate"
    /\ \E fallback \in {normalizeFallbackTimezone(settings.fallbackTimezone)},
          overrides \in {normalizeTimezoneOverrides(settings.timezoneOverrides)},
          total \in {Len(filteredPosts)} :
          IF ~fallback.ok
          THEN /\ pc' = "failed"
               /\ outcome' = Failed(fallback.error)
               /\ UNCHANGED <<fallbackTimezone, timezoneOverrides, events>>
          ELSE IF ~overrides.ok
          THEN /\ pc' = "failed"
               /\ outcome' = Failed(overrides.error)
               /\ UNCHANGED <<fallbackTimezone, timezoneOverrides, events>>
          ELSE /\ pc' = "processing"
               /\ fallbackTimezone' = fallback.value
               /\ timezoneOverrides' = overrides.value
               /\ events' = Append(events, ProgressEvent("processing", 0, total,
                                                         IF total = 0 THEN 50 ELSE 0, 1))
               /\ outcome' = outcome
    /\ UNCHANGED <<server, page, exif, jpeg, zipFiles, lookup, dateBounds, inputZip, settings, filteredPosts, index, cur, warnings,
                   iptcEmbeddingFailed, processedSingles, combineCandidates,
                   singleNameSet, combinedFiles, combinedNameSet, outputZip, decoded>>

\* A check that looks for the primary file only.
FileMissingPrimaryOnly(primaryObject, secondaryObject) == primaryObject = "null"

\* A check that lets a missing reference pass.
PathsMissingNever(primaryNameRaw, secondaryNameRaw) == FALSE

\* Line 1038: a reference is missing.
PathsMissing(primaryNameRaw, secondaryNameRaw) ==
    primaryNameRaw = "null" \/ secondaryNameRaw = "null"

\* Line 1052: the archive holds no file for a reference.
FileMissing(primaryObject, secondaryObject) ==
    primaryObject = "null" \/ secondaryObject = "null"

\* A loop body that reports its end under the stage that follows the loops.
PostDoneEventAsPackaging ==
    ProgressEvent("packaging", index + 1, Len(filteredPosts),
                  (index + 1) * 80, Max(Len(filteredPosts), 1))

\* The processing event that ends the loop body for the Post at index.
PostDoneEvent ==
    ProgressEvent("processing", index + 1, Len(filteredPosts),
                  (index + 1) * 80, Max(Len(filteredPosts), 1))

\* Lines 1019-1064: the Post's zone and timestamp, its two references and their
\* archive entries.  A Post without both is skipped.
BeginPost ==
    /\ pc = "processing"
    /\ index < Len(filteredPosts)
    /\ \E parsedPost \in {filteredPosts[index + 1]} :
       \E location \in {normalizeLocation(parsedPost.entry.location)} :
       \E resolved \in {resolvePostTimezone(parsedPost.takenAt, location,
                                            timezoneOverrides, fallbackTimezone)} :
          IF ~resolved.ok
          THEN /\ pc' = "failed"
               /\ outcome' = Failed(resolved.error)
               /\ UNCHANGED <<index, cur, warnings, events>>
          ELSE
            \E timestamp \in {formatTimestampInTimeZone(parsedPost.takenAt, resolved.value)},
               primaryNameRaw \in {parsedPost.entry.primary},
               secondaryNameRaw \in {parsedPost.entry.secondary} :
            \E primaryObject \in {findImageObject(primaryNameRaw)},
               secondaryObject \in {findImageObject(secondaryNameRaw)} :
               /\ outcome' = outcome
               /\ IF PathsMissing(primaryNameRaw, secondaryNameRaw)
                  THEN /\ warnings' = warnings \o resolved.pushed
                                      \o <<Warning("pathsMissing", timestamp, "", <<>>, "")>>
                       /\ events' = Append(events, PostDoneEvent)
                       /\ index' = index + 1
                       /\ UNCHANGED <<pc, cur>>
                  ELSE IF FileMissing(primaryObject, secondaryObject)
                  THEN /\ warnings' = warnings \o resolved.pushed
                                      \o <<Warning("fileMissing", timestamp, "", <<>>, "")>>
                       /\ events' = Append(events, PostDoneEvent)
                       /\ index' = index + 1
                       /\ UNCHANGED <<pc, cur>>
                  ELSE /\ warnings' = warnings \o resolved.pushed
                       /\ cur' = [takenAt |-> parsedPost.takenAt, location |-> location,
                                  caption |-> parsedPost.entry.caption,
                                  timeZone |-> resolved.value, timestamp |-> timestamp,
                                  primaryObject |-> primaryObject,
                                  secondaryObject |-> secondaryObject,
                                  role |-> "primary",
                                  primaryFile |-> NoFile, secondaryFile |-> NoFile]
                       /\ pc' = "role"
                       /\ UNCHANGED <<index, events>>
    /\ UNCHANGED <<server, page, exif, jpeg, zipFiles, lookup, dateBounds, inputZip, settings, filteredPosts, fallbackTimezone, timezoneOverrides,
                   iptcEmbeddingFailed, processedSingles, combineCandidates,
                   singleNameSet, combinedFiles, combinedNameSet, outputZip, decoded>>

\* A role loop that a failed pass leaves.
AfterRoleAbort(role, failed) == IF failed \/ role = "secondary" THEN "endpost" ELSE "role"

\* Where the role loop goes after a pass: the catch of lines 1095-1098 lies inside
\* the loop, so a failed pass goes where a successful one does.
AfterRole(role, failed) == IF role = "primary" THEN "role" ELSE "endpost"

\* Lines 1066-1099: one pass of the role loop, primary first.
ProcessRole ==
    /\ pc = "role"
    /\ \E role \in {cur.role}, format \in {settings.exportFormat} :
       \E sourceObject \in {IF role = "primary" THEN cur.primaryObject ELSE cur.secondaryObject} :
       \E converted \in {Blob("single", <<sourceObject>>, format, "none")} :
       \E metadataResult \in {addMetadataToJpeg(converted, cur.caption)},
          uniqueName \in {getUniqueFilename(cur.timestamp \o <<"_", role>> \o ExtensionOf(format),
                                            singleNameSet)} :
       \E outputBlob \in {IF format = "jpg" THEN metadataResult.blob ELSE converted} :
       \E outputFile \in {[name |-> uniqueName, blob |-> outputBlob]},
          after \in {AfterRole(role, loadImageFails(sourceObject))} :
          /\ decoded' = Append(decoded, sourceObject)
          /\ IF loadImageFails(sourceObject)
             THEN /\ warnings' = Append(warnings,
                                    Warning("roleFailed", cur.timestamp, role, cur.timeZone,
                                            "Could not decode an image from the export."))
                  /\ cur' = [cur EXCEPT !.role = "secondary"]
                  /\ UNCHANGED <<iptcEmbeddingFailed, singleNameSet, processedSingles>>
             ELSE /\ iptcEmbeddingFailed' =
                        (iptcEmbeddingFailed \/ (format = "jpg" /\ ~metadataResult.iptcEmbedded))
                  /\ singleNameSet' = singleNameSet \cup {uniqueName}
                  /\ processedSingles' = Append(processedSingles, outputFile)
                  /\ cur' = IF role = "primary"
                            THEN [cur EXCEPT !.primaryFile = outputFile, !.role = "secondary"]
                            ELSE [cur EXCEPT !.secondaryFile = outputFile, !.role = "secondary"]
                  /\ UNCHANGED warnings
          /\ pc' = after
    /\ UNCHANGED <<server, page, exif, jpeg, zipFiles, lookup, dateBounds, inputZip, settings, filteredPosts, fallbackTimezone, timezoneOverrides,
                   index, combineCandidates, combinedFiles, combinedNameSet, outputZip,
                   events, outcome>>

\* A test that one file of the Post passes.
EitherFileProduced(primaryFile, secondaryFile) ==
    primaryFile # NoFile \/ secondaryFile # NoFile

\* Line 1101: primaryFile && secondaryFile
BothFilesProduced(primaryFile, secondaryFile) ==
    primaryFile # NoFile /\ secondaryFile # NoFile

\* Lines 1101-1117: a Post with both files becomes a combine candidate.
EndPost ==
    /\ pc = "endpost"
    /\ combineCandidates' =
          IF BothFilesProduced(cur.primaryFile, cur.secondaryFile)
          THEN Append(combineCandidates,
                      [primary |-> cur.primaryFile, secondary |-> cur.secondaryFile,
                       takenAt |-> cur.takenAt, timeZone |-> cur.timeZone,
                       location |-> cur.location, caption |-> cur.caption])
          ELSE combineCandidates
    /\ events' = Append(events, PostDoneEvent)
    /\ index' = index + 1
    /\ pc' = "processing"
    /\ UNCHANGED <<server, page, exif, jpeg, zipFiles, lookup, dateBounds, inputZip, settings, filteredPosts, fallbackTimezone, timezoneOverrides,
                   cur, warnings, iptcEmbeddingFailed, processedSingles, singleNameSet,
                   combinedFiles, combinedNameSet, outputZip, decoded, outcome>>

\* Lines 1120-1123, reached when the Post loop is over.
StartCombining ==
    /\ pc = "processing"
    /\ index = Len(filteredPosts)
    /\ IF settings.createCombinedImages
       THEN /\ events' = Append(events, ProgressEvent("combining", 0, Len(combineCandidates), 80, 1))
            /\ pc' = IF Len(combineCandidates) = 0 THEN "packaging" ELSE "combining"
       ELSE /\ pc' = "packaging"
            /\ UNCHANGED events
    /\ index' = 0
    /\ UNCHANGED <<server, page, exif, jpeg, zipFiles, lookup, dateBounds, inputZip, settings, filteredPosts, fallbackTimezone, timezoneOverrides,
                   cur, warnings, iptcEmbeddingFailed, processedSingles, combineCandidates,
                   singleNameSet, combinedFiles, combinedNameSet, outputZip, decoded,
                   outcome>>

\* Lines 1125-1169: one pass of the combine loop.  combineImages may fail (the
\* canvas may refuse to encode).
CombineOne ==
    /\ pc = "combining"
    /\ index < Len(combineCandidates)
    /\ \E candidate \in {combineCandidates[index + 1]}, format \in {settings.exportFormat} :
       \E baseBlob \in {IF settings.rearPhotoLarge THEN candidate.primary.blob
                         ELSE candidate.secondary.blob},
          overlayBlob \in {IF settings.rearPhotoLarge THEN candidate.secondary.blob
                            ELSE candidate.primary.blob},
          timestamp \in {formatTimestampInTimeZone(candidate.takenAt, candidate.timeZone)} :
       \E combined \in {Blob("combined", baseBlob.sources \o overlayBlob.sources, format, "none")} :
       \E metadataResult \in {addMetadataToJpeg(combined, candidate.caption)},
          combinedName \in {getUniqueFilename(timestamp \o <<"_", "combined">> \o ExtensionOf(format),
                                              combinedNameSet)} :
       \E combinedBlob \in {IF format = "jpg" THEN metadataResult.blob ELSE combined} :
          /\ decoded' = decoded \o baseBlob.sources \o overlayBlob.sources
          /\ \E encoded \in BOOLEAN :
               IF encoded
               THEN /\ iptcEmbeddingFailed' =
                          (iptcEmbeddingFailed \/ (format = "jpg" /\ ~metadataResult.iptcEmbedded))
                    /\ combinedNameSet' = combinedNameSet \cup {combinedName}
                    /\ combinedFiles' = Append(combinedFiles,
                                               [name |-> combinedName, blob |-> combinedBlob])
                    /\ UNCHANGED warnings
               ELSE /\ warnings' = Append(warnings,
                                      Warning("combineFailed", timestamp, "", candidate.timeZone,
                                              "Could not encode image output."))
                    /\ UNCHANGED <<iptcEmbeddingFailed, combinedNameSet, combinedFiles>>
          /\ events' = Append(events,
                          ProgressEvent("combining", index + 1, Len(combineCandidates),
                                        80 * Max(Len(combineCandidates), 1) + (index + 1) * 10,
                                        Max(Len(combineCandidates), 1)))
    /\ index' = index + 1
    /\ pc' = IF index + 1 = Len(combineCandidates) THEN "packaging" ELSE "combining"
    /\ UNCHANGED <<server, page, exif, jpeg, zipFiles, lookup, dateBounds, inputZip, settings, filteredPosts, fallbackTimezone, timezoneOverrides,
                   cur, processedSingles, combineCandidates, singleNameSet, outputZip,
                   outcome>>

\* An export that holds the singles whatever the setting says.
ExportFilesWithSingles == processedSingles \o combinedFiles

\* line 1174
ExportFiles == IF settings.createCombinedImages THEN combinedFiles ELSE processedSingles

\* A count of every file the run produced.
ExportedCountOfAll == Len(processedSingles) + Len(combinedFiles)

\* line 1207
ExportedCount == Len(ExportFiles)

\* rootFolder.file(name, blob): a name the folder holds already is replaced.
ZipFile(zip, file) ==
    IF \E i \in 1..Len(zip) : zip[i].name = file.name
    THEN [i \in 1..Len(zip) |-> IF zip[i].name = file.name THEN file ELSE zip[i]]
    ELSE Append(zip, file)

RECURSIVE ZipFiles(_, _)
ZipFiles(zip, files) ==
    IF files = <<>> THEN zip ELSE ZipFiles(ZipFile(zip, Head(files)), Tail(files))

\* How often generateAsync reports its progress at most.
MaxPackagingUpdates == 1

\* Lines 1172-1195: the export files are written into the output archive;
\* generateAsync reports its progress some number of times.
Package ==
    /\ pc = "packaging"
    /\ outputZip' = ZipFiles(<<>>, ExportFiles)
    /\ \E updates \in 0..MaxPackagingUpdates :
         events' = events \o <<ProgressEvent("packaging", 0, 0, 92, 1)>>
                   \o [k \in 1..updates |->
                         ProgressEvent("packaging", 0, 0, 9200 * updates + 700 * k, 100 * updates)]
    /\ pc' = "complete"
    /\ UNCHANGED <<server, page, exif, jpeg, zipFiles, lookup, dateBounds, inputZip, settings, filteredPosts, fallbackTimezone, timezoneOverrides,
                   index, cur, warnings, iptcEmbeddingFailed, processedSingles,
                   combineCandidates, singleNameSet, combinedFiles, combinedNameSet,
                   decoded, outcome>>

\* A return that hands out the list of warnings as it is.
DedupeNone(list, seen) == seen \o list

\* Array.from(new Set(warnings)): the first occurrence of each, in order.
RECURSIVE Dedupe(_, _)
Dedupe(list, seen) ==
    IF list = <<>> THEN seen
    ELSE IF \E i \in 1..Len(seen) : seen[i] = Head(list) THEN Dedupe(Tail(list), seen)
    ELSE Dedupe(Tail(list), Append(seen, Head(list)))

\* Lines 1197-1211.
Complete ==
    /\ pc = "complete"
    /\ events' = Append(events, ProgressEvent("complete", 1, 1, 100, 1))
    /\ warnings' = IF settings.exportFormat = "jpg" /\ iptcEmbeddingFailed
                   THEN Append(warnings, Warning("iptcFailed", <<>>, "", <<>>, ""))
                   ELSE warnings
    /\ outcome' = [kind |-> "result",
                   blob |-> outputZip,
                   exportedCount |-> ExportedCount,
                   warnings |-> Dedupe(warnings', <<>>),
                   effectiveFormat |-> settings.exportFormat,
                   shareFiles |-> ExportFiles]
    /\ pc' = "done"
    /\ UNCHANGED <<server, page, exif, jpeg, zipFiles, lookup, dateBounds, inputZip, settings, filteredPosts, fallbackTimezone, timezoneOverrides,
                   index, cur, iptcEmbeddingFailed, processedSingles, combineCandidates,
                   singleNameSet, combinedFiles, combinedNameSet, outputZip, decoded>>

(***************************************************************************)
(* extractExportDateBounds                                                 *)
(***************************************************************************)
\* Number.POSITIVE_INFINITY and Number.NEGATIVE_INFINITY, and a finite timestamp.
Infinite == [finite |-> FALSE, ms |-> 0]
Finite(ms) == [finite |-> TRUE, ms |-> ms]

NullBounds == [isNull |-> TRUE, earliestDate |-> <<>>, latestDate |-> <<>>]

\* A scan that takes the manifest to be in ascending order: the first timestamp
\* it sees is the earliest.
EarlierOfSorted(timestamp, earliest) ==
    IF ~earliest.finite THEN Finite(timestamp) ELSE earliest

\* Lines 781-784: a timestamp below the earliest, above the latest, replaces it.
EarlierOf(timestamp, earliest) ==
    IF ~earliest.finite \/ timestamp < earliest.ms THEN Finite(timestamp) ELSE earliest

LaterOf(timestamp, latest) ==
    IF ~latest.finite \/ timestamp > latest.ms THEN Finite(timestamp) ELSE latest

\* Lines 789-797.
BoundsResult(earliest, latest) ==
    IF ~earliest.finite \/ ~latest.finite THEN NullBounds
    ELSE [isNull |-> FALSE, earliestDate |-> formatDateUtc(earliest.ms),
          latestDate |-> formatDateUtc(latest.ms)]

\* The loop of lines 773-787 from entry i on.
RECURSIVE ScanTimestampsFrom(_, _, _, _)
ScanTimestampsFrom(entries, i, earliest, latest) ==
    IF i > Len(entries) THEN BoundsResult(earliest, latest)
    ELSE IF entries[i].takenAt.kind # "instant"
    THEN ScanTimestampsFrom(entries, i + 1, earliest, latest)
    ELSE ScanTimestampsFrom(entries, i + 1, EarlierOf(entries[i].takenAt.ms, earliest),
                            LaterOf(entries[i].takenAt.ms, latest))

\* extractExportDateBounds as one step: null without a root, a manifest or
\* parseable JSON, else the scan.
ExtractExportDateBounds ==
    /\ pc = "start"
    /\ dateBounds' = IF ReadManifest(findExportRootPrefix(zipFiles),
                                     buildFileLookup(zipFiles).byPath, inputZip)
                           \in {"noRoot", "noPostsObject", "badJson"}
                     THEN NullBounds
                     ELSE ScanTimestampsFrom(parsePosts(inputZip), 1, Infinite, Infinite)
    /\ pc' = "boundsDone"
    /\ UNCHANGED <<server, page, exif, jpeg, zipFiles, lookup, inputZip, settings, filteredPosts, fallbackTimezone,
                   timezoneOverrides,
                   index, cur, warnings, iptcEmbeddingFailed, processedSingles,
                   combineCandidates, singleNameSet, combinedFiles, combinedNameSet,
                   outputZip, events, decoded, outcome>>

(***************************************************************************)
(* findExportRootPrefix and findImageObject, called on an entry listing     *)
(***************************************************************************)
\* The logical filenames of the Posts.
FilenameUniverse == { <<"a.webp">>, <<"A.webp">>, <<"b.webp">> }

\* Line 966 (and 752): the root of the export is looked up.
FindExportRootPrefix ==
    /\ lookup.pc = "idle"
    /\ lookup' = [lookup EXCEPT !.pc = "rooted", !.rootPrefix = findExportRootPrefix(zipFiles)]
    /\ UNCHANGED <<server, page, exif, jpeg, zipFiles, inputZip, settings, pc, filteredPosts, fallbackTimezone,
                   timezoneOverrides, index, cur, warnings, iptcEmbeddingFailed,
                   processedSingles, combineCandidates, singleNameSet, combinedFiles,
                   combinedNameSet, outputZip, events, decoded, outcome, dateBounds>>

\* Lines 971 and 1049: the indexes are built and a filename is looked up under
\* the root that was found.
FindImageObject ==
    /\ lookup.pc = "rooted"
    /\ ~lookup.rootPrefix.isNull
    /\ \E filename \in FilenameUniverse, maps \in {buildFileLookup(zipFiles)} :
          lookup' = [lookup EXCEPT
                        !.pc = "found",
                        !.filename = filename,
                        !.imageObject = findImageObjectIn(filename, lookup.rootPrefix.prefix,
                                                          maps.byPath, maps.byBasename)]
    /\ UNCHANGED <<server, page, exif, jpeg, zipFiles, inputZip, settings, pc, filteredPosts, fallbackTimezone,
                   timezoneOverrides, index, cur, warnings, iptcEmbeddingFailed,
                   processedSingles, combineCandidates, singleNameSet, combinedFiles,
                   combinedNameSet, outputZip, events, decoded, outcome, dateBounds>>

(***************************************************************************)
(* addIptcToJpeg, called on a byte stream and an IPTC payload               *)
(***************************************************************************)
\* Pieces of JPEG streams: the markers SOI, SOS and EOI, a fill byte, the
\* markers TEM and RST7 that carry no length, an empty APP0 segment, an APP0
\* segment whose two data bytes read as an SOS marker, segments that state the
\* lengths 1 and 9, a marker without length bytes, and a byte that is no marker.
JpegChunks ==
    {<<255, 216>>, <<255, 218>>, <<255, 217>>, <<255>>, <<255, 1>>, <<255, 215>>,
     <<255, 224, 0, 2>>, <<255, 224, 0, 4, 255, 218>>,
     <<255, 224, 0, 1>>, <<255, 224, 0, 9>>, <<255, 224>>, <<0>>}

MaxChunks == 3

RECURSIVE Flatten(_)
Flatten(chunks) == IF chunks = <<>> THEN <<>> ELSE Head(chunks) \o Flatten(Tail(chunks))

\* The streams: up to MaxChunks pieces behind an SOI marker, and up to two
\* pieces without one.
JpegUniverse ==
    {<<255, 216>> \o Flatten(chunks) :
        chunks \in UNION {[1..k -> JpegChunks] : k \in 0..MaxChunks}}
    \cup {Flatten(chunks) : chunks \in UNION {[1..k -> JpegChunks] : k \in 0..2}}

PlainJpeg == <<255, 216, 255, 224, 0, 4, 74, 70, 255, 218, 0, 255, 217>>

ByteArray(length, byte) == [i \in 1..length |-> byte]

\* The payload of a Post without caption: datasets 90, 55 and 60.
PlainIptcPayload ==
    <<28, 2, 90, 0, 3, 27, 37, 71>>
    \o <<28, 2, 55, 0, 8, 50, 48, 50, 52, 48, 51, 51, 49>>
    \o <<28, 2, 60, 0, 11, 48, 49, 51, 48, 48, 48, 43, 48, 49, 48, 48>>

\* Payloads: none, of odd and even lengths, of more than 255 bytes, and of the
\* lengths around the largest that fits a segment.
IptcPayloadUniverse ==
    {<<>>, <<28>>, <<28, 2>>, PlainIptcPayload, ByteArray(300, 32)}
    \cup {ByteArray(MaxSegmentLength - 31 + k, 32) : k \in 0..4}
    \cup {ByteArray(70000, 32)}

\* addIptcToJpeg is called (line 548): every stream with the plain payload, and
\* the plain stream with every payload.
AddIptcToJpeg ==
    /\ jpeg.pc = "idle"
    /\ \E jpegData \in JpegUniverse \cup {PlainJpeg}, iptcPayload \in IptcPayloadUniverse :
          /\ jpegData = PlainJpeg \/ iptcPayload = PlainIptcPayload
          /\ jpeg' = [NoJpeg EXCEPT !.pc = "called", !.jpegData = jpegData,
                                    !.iptcPayload = iptcPayload]
    /\ UNCHANGED <<server, page, exif, zipFiles, lookup, inputZip, settings, pc, filteredPosts, fallbackTimezone,
                   timezoneOverrides, index, cur, warnings, iptcEmbeddingFailed,
                   processedSingles, combineCandidates, singleNameSet, combinedFiles,
                   combinedNameSet, outputZip, events, decoded, outcome, dateBounds>>

\* Line 551: the APP13 segment is built, or the call throws.
BuildIptcApp13Segment ==
    /\ jpeg.pc = "called"
    /\ \E built \in {buildIptcApp13Segment(jpeg.iptcPayload)} :
          jpeg' = IF built.threw
                  THEN [jpeg EXCEPT !.pc = "threw", !.error = built.error]
                  ELSE [jpeg EXCEPT !.pc = "built", !.app13Segment = built.value]
    /\ UNCHANGED <<server, page, exif, zipFiles, lookup, inputZip, settings, pc, filteredPosts, fallbackTimezone,
                   timezoneOverrides, index, cur, warnings, iptcEmbeddingFailed,
                   processedSingles, combineCandidates, singleNameSet, combinedFiles,
                   combinedNameSet, outputZip, events, decoded, outcome, dateBounds>>

\* Lines 552 and 503-507: findJpegMetadataInsertOffset is entered.
FindJpegMetadataInsertOffset ==
    /\ jpeg.pc = "built"
    /\ jpeg' = IF InvalidJpegStream(jpeg.jpegData)
               THEN [jpeg EXCEPT !.pc = "threw", !.error = "invalidStream"]
               ELSE [jpeg EXCEPT !.pc = "walking", !.offset = 2]
    /\ UNCHANGED <<server, page, exif, zipFiles, lookup, inputZip, settings, pc, filteredPosts, fallbackTimezone,
                   timezoneOverrides, index, cur, warnings, iptcEmbeddingFailed,
                   processedSingles, combineCandidates, singleNameSet, combinedFiles,
                   combinedNameSet, outputZip, events, decoded, outcome, dateBounds>>

\* Lines 509-545: one pass of the loop, or the throw behind it.
WalkMarkers ==
    /\ jpeg.pc = "walking"
    /\ \E pass \in {LoopPass(jpeg.jpegData, jpeg.offset)} :
          jpeg' = CASE pass.kind = "return" ->
                          [jpeg EXCEPT !.pc = "located", !.offset = pass.offset]
                    [] pass.kind = "continue" -> [jpeg EXCEPT !.offset = pass.offset]
                    [] pass.kind = "throw" ->
                          [jpeg EXCEPT !.pc = "threw", !.error = pass.error]
    /\ UNCHANGED <<server, page, exif, zipFiles, lookup, inputZip, settings, pc, filteredPosts, fallbackTimezone,
                   timezoneOverrides, index, cur, warnings, iptcEmbeddingFailed,
                   processedSingles, combineCandidates, singleNameSet, combinedFiles,
                   combinedNameSet, outputZip, events, decoded, outcome, dateBounds>>

\* Lines 554-559: the segment is put between the two slices of the stream.
MergeSegment ==
    /\ jpeg.pc = "located"
    /\ jpeg' = [jpeg EXCEPT !.pc = "merged",
                            !.merged = concatByteArrays(SliceTo(jpeg.jpegData, jpeg.offset),
                                                        jpeg.app13Segment,
                                                        SliceFrom(jpeg.jpegData, jpeg.offset))]
    /\ UNCHANGED <<server, page, exif, zipFiles, lookup, inputZip, settings, pc, filteredPosts, fallbackTimezone,
                   timezoneOverrides, index, cur, warnings, iptcEmbeddingFailed,
                   processedSingles, combineCandidates, singleNameSet, combinedFiles,
                   combinedNameSet, outputZip, events, decoded, outcome, dateBounds>>

(***************************************************************************)
(* Inputs                                                                  *)
(***************************************************************************)
\* 2024-03-31 00:30:00 UTC, one hour later (Berlin is on summer time by then), and
\* 2024-04-01 12:00:00 UTC.
TakenA == MsPerDay + 30 * 60 * 1000
TakenB == TakenA + 60 * 60 * 1000
TakenC == 2 * MsPerDay + 12 * 60 * 60 * 1000

(***************************************************************************)
(* The date, offset and GPS values addMetadataToJpeg and buildIptcPayload    *)
(* write, called on an instant in a zone and on a location                  *)
(***************************************************************************)
\* Instants: a second, a millisecond and half a second before Europe/Berlin
\* enters and Australia/Lord_Howe leaves summer time, and instants away from
\* both.
ExifInstantUniverse ==
    {TakenA, TakenC, 5 * MsPerDay + 123,
     BerlinDstStart - 1000, BerlinDstStart - 500, BerlinDstStart - 1,
     LordHoweDstEnd - 1000, LordHoweDstEnd - 500, LordHoweDstEnd - 1}

\* Latitudes and longitudes, in millionths of a degree.
LatitudeUniverse ==
    {0, 1, -1, 999999, 1200000, -10999999, 52520000, -33868800, 89999999, -90000000}

LongitudeUniverse ==
    {0, -1, 13405000, 151209300, -59999999, 179999999, -180000000}

\* Lines 702-709 of addMetadataToJpeg and 454 of buildIptcPayload: the local
\* date and time, the EXIF offset and the IPTC time of an instant in a zone.
\* A second call is for the instant one second later in the same zone.
WriteDateTime ==
    /\ Len(exif.calls) < 2
    /\ \E takenAt \in ExifInstantUniverse \cup {t + 1000 : t \in ExifInstantUniverse},
          timeZone \in {<<z>> : z \in ValidTimeZones} :
          /\ IF exif.calls = <<>> THEN takenAt \in ExifInstantUniverse
             ELSE takenAt = exif.calls[1].takenAt + 1000 /\ timeZone = exif.calls[1].timeZone
          /\ exif' = [exif EXCEPT
                !.pc = "written",
                !.calls = Append(exif.calls,
                    [takenAt |-> takenAt, timeZone |-> timeZone,
                     resolved |-> resolveDateTimeInTimeZone(takenAt, timeZone),
                     exifOffset |-> formatExifOffsetInTimeZone(takenAt, timeZone),
                     iptcTime |-> formatIptcTimeInTimeZone(takenAt, timeZone)])]
    /\ UNCHANGED <<server, page, jpeg, zipFiles, lookup, inputZip, settings, pc, filteredPosts,
                   fallbackTimezone, timezoneOverrides, index, cur, warnings,
                   iptcEmbeddingFailed, processedSingles, combineCandidates, singleNameSet,
                   combinedFiles, combinedNameSet, outputZip, events, decoded, outcome,
                   dateBounds>>

\* Lines 717-723: the GPS tags of a location.
WriteGps ==
    /\ exif.gps = <<>>
    /\ \E latitude \in LatitudeUniverse, longitude \in LongitudeUniverse :
          exif' = [exif EXCEPT
                !.pc = "written",
                !.gps = <<[latitude |-> latitude, longitude |-> longitude,
                           GPSLatitudeRef |-> IF latitude >= 0 THEN "N" ELSE "S",
                           GPSLatitude |-> toExifDegrees(Abs(latitude)),
                           GPSLongitudeRef |-> IF longitude >= 0 THEN "E" ELSE "W",
                           GPSLongitude |-> toExifDegrees(Abs(longitude))]>>]
    /\ UNCHANGED <<server, page, jpeg, zipFiles, lookup, inputZip, settings, pc, filteredPosts,
                   fallbackTimezone, timezoneOverrides, index, cur, warnings,
                   iptcEmbeddingFailed, processedSingles, combineCandidates, singleNameSet,
                   combinedFiles, combinedNameSet, outputZip, events, decoded, outcome,
                   dateBounds>>

Instant(ms) == [kind |-> "instant", ms |-> ms]

Number(value) == [kind |-> "number", value |-> value]

Location(latitude, longitude) ==
    [present |-> TRUE, latitude |-> latitude, longitude |-> longitude]

NoCaption == [isString |-> FALSE, bytes |-> 0]

Post(takenAt, primary, secondary, location, caption) ==
    [takenAt |-> takenAt, primary |-> primary, secondary |-> secondary,
     location |-> location, caption |-> caption]

\* The plain Post, and the Posts that differ from it in one respect.
PlainPost == Post(Instant(TakenA), "ok.webp", "ok.webp", NoLocation, NoCaption)

PostUniverse ==
    {PlainPost}
    \cup {[PlainPost EXCEPT !.takenAt = t] :
             t \in {Instant(TakenB), Instant(TakenC)}}
    \cup {[PlainPost EXCEPT !.primary = a[1], !.secondary = a[2]] :
             a \in {<<"bad.webp", "ok.webp">>, <<"ok.webp", "bad.webp">>,
                    <<"lone.webp", "gone.webp">>, <<"null", "ok.webp">>}}
    \cup {[PlainPost EXCEPT !.location = l] :
             l \in {Location(Number(52), Number(13)), Location(Number(95), Number(0)),
                    Location(Number(10), Number(10)),
                    Location(Number(52), [kind |-> "missing", value |-> 0])}}
    \cup {[PlainPost EXCEPT !.caption = [isString |-> TRUE, bytes |-> 70000]]}

MaxPosts == 2

SeqsUpTo(S, n) == UNION {[1..k -> S] : k \in 0..n}

ZipUniverse ==
    {[manifest |-> m, posts |-> <<>>] : m \in {"noRoot", "noPostsObject", "badJson", "notArray"}}
    \cup {[manifest |-> "ok", posts |-> p] : p \in SeqsUpTo(PostUniverse, MaxPosts)}

Span(startDate, endDate, timeZone) ==
    [startDate |-> startDate, endDate |-> endDate, timeZone |-> timeZone]

SettingsUniverse ==
    [exportFormat : {"jpg", "png"},
     createCombinedImages : BOOLEAN,
     rearPhotoLarge : {TRUE},
     sinceDate : {<<>>},
     endDate : {<<>>},
     fallbackTimezone : {<<>>, <<"UTC">>},
     timezoneOverrides : {<<>>, << Span(<<>>, <<"2", "0", "2", "4", "-", "0", "3", "-", "3", "1">>, <<"America/New_York">>) >>}]

\* The state before processBeRealExport, or extractExportDateBounds, is called.
Fresh ==
    /\ pc = "start"
    /\ filteredPosts = <<>>
    /\ fallbackTimezone = <<>>
    /\ timezoneOverrides = <<>>
    /\ index = 0
    /\ cur = NoCur
    /\ warnings = <<>>
    /\ iptcEmbeddingFailed = FALSE
    /\ processedSingles = <<>>
    /\ combineCandidates = <<>>
    /\ singleNameSet = {}
    /\ combinedFiles = <<>>
    /\ combinedNameSet = {}
    /\ outputZip = <<>>
    /\ events = <<>>
    /\ decoded = <<>>
    /\ outcome = Running
    /\ dateBounds = NullBounds
    /\ lookup = NoLookup
    /\ jpeg = NoJpeg
    /\ exif = NoExif
    /\ page = NoPage
    /\ server = NoServer

\* The archive holds the manifest and a Photos folder beside it, or no manifest.
PlainlyPacked == zipFiles = ArchiveOf(inputZip)

Init ==
    /\ inputZip \in ZipUniverse
    /\ settings \in SettingsUniverse
    /\ PlainlyPacked
    /\ Fresh

Next ==
    \/ LoadManifest
    \/ FilterPosts
    \/ ValidateSettings
    \/ BeginPost
    \/ ProcessRole
    \/ EndPost
    \/ StartCombining
    \/ CombineOne
    \/ Package
    \/ Complete

Spec == Init /\ [][Next]_vars

\* Runs over lists of override spans: Posts without location, taken on
\* 2024-03-31 and on 2024-04-01.
DateText(year, month, day) == String(year) \o <<"-">> \o pad(month) \o <<"-">> \o pad(day)

SpanUniverse ==
    {Span(<<>>, DateText(2024, 3, 31), <<"America/New_York">>),
     Span(DateText(2024, 3, 31), <<>>, <<"Europe/Berlin">>),
     Span(DateText(2024, 4, 1), DateText(2024, 4, 1), <<"UTC">>),
     Span(<<>>, <<>>, <<" ">>),
     Span(DateText(2024, 3, 31), <<>>, <<>>),
     Span(<<>>, <<>>, <<"Mars/Phobos">>),
     Span(String(2024) \o <<"-", "3", "-", "3", "1">>, <<>>, <<"UTC">>),
     Span(<<>>, String(2024) \o <<"/", "0", "3", "/", "3", "1">>, <<"UTC">>),
     Span(<<>>, DateText(2024, 2, 31), <<"UTC">>),
     Span(DateText(2024, 4, 1), DateText(2024, 3, 31), <<"UTC">>)}

MaxSpans == 2

InitOverrides ==
    /\ inputZip \in {[manifest |-> "ok", posts |-> p] :
                        p \in SeqsUpTo({PlainPost, [PlainPost EXCEPT !.takenAt = Instant(TakenC)]},
                                       MaxPosts)}
    /\ settings \in [exportFormat : {"jpg"},
                      createCombinedImages : {TRUE},
                      rearPhotoLarge : {TRUE},
                      sinceDate : {<<>>},
                      endDate : {<<>>},
                      fallbackTimezone : {<<>>, <<"UTC">>, <<"Mars/Phobos">>},
                      timezoneOverrides : SeqsUpTo(SpanUniverse, MaxSpans)]
    /\ PlainlyPacked
    /\ Fresh

SpecOverrides == InitOverrides /\ [][Next]_vars

\* Runs over date filters: Posts taken at 2024-03-30 23:30:00 UTC, on the next two
\* days, at no date and without takenAt.
TakenD == 23 * 60 * 60 * 1000 + 30 * 60 * 1000

FilterPostUniverse ==
    {[PlainPost EXCEPT !.takenAt = t] :
        t \in {Instant(TakenD), Instant(TakenA), Instant(TakenC),
               [kind |-> "garbage", ms |-> 0], [kind |-> "missing", ms |-> 0]}}

InitFilter ==
    /\ inputZip \in {[manifest |-> "ok", posts |-> p] :
                        p \in SeqsUpTo(FilterPostUniverse, MaxPosts)}
    /\ settings \in [exportFormat : {"jpg"},
                      createCombinedImages : {TRUE},
                      rearPhotoLarge : {TRUE},
                      sinceDate : {<<>>, DateText(2024, 3, 31), DateText(2024, 4, 1)},
                      endDate : {<<>>, DateText(2024, 3, 31), DateText(2024, 4, 1)},
                      fallbackTimezone : {<<"UTC">>},
                      timezoneOverrides : {<<>>}]
    /\ PlainlyPacked
    /\ Fresh

SpecFilter == InitFilter /\ [][Next]_vars

\* Calls of extractExportDateBounds on every manifest of the filter runs, and on
\* the archives without a manifest.
InitBounds ==
    /\ inputZip \in
          {[manifest |-> m, posts |-> <<>>] : m \in {"noRoot", "noPostsObject", "badJson", "notArray"}}
          \cup {[manifest |-> "ok", posts |-> p] :
                   p \in SeqsUpTo(FilterPostUniverse \cup {[PlainPost EXCEPT !.takenAt = Instant(TakenB)]},
                                  MaxPosts)}
    /\ settings \in [exportFormat : {"jpg", "png"},
                      createCombinedImages : {TRUE},
                      rearPhotoLarge : {TRUE},
                      sinceDate : {<<>>},
                      endDate : {<<>>},
                      fallbackTimezone : {<<>>},
                      timezoneOverrides : {<<>>}]
    /\ PlainlyPacked
    /\ Fresh

SpecBounds == InitBounds /\ [][ExtractExportDateBounds]_vars

\* Whole runs over archives whose Posts differ in when they were taken, in what
\* the archive holds of them, in where they were taken and in their caption.
RunPostUniverse ==
    {PlainPost,
     [PlainPost EXCEPT !.takenAt = Instant(TakenB)],
     [PlainPost EXCEPT !.secondary = "bad.webp"],
     [PlainPost EXCEPT !.primary = "null"],
     [PlainPost EXCEPT !.primary = "lone.webp", !.secondary = "gone.webp"],
     [PlainPost EXCEPT !.location = Location(Number(95), Number(0))],
     [PlainPost EXCEPT !.caption = [isString |-> TRUE, bytes |-> 70000]]}

RunZipUniverse ==
    {[manifest |-> m, posts |-> <<>>] : m \in {"noRoot", "noPostsObject", "badJson", "notArray"}}
    \cup {[manifest |-> "ok", posts |-> p] : p \in SeqsUpTo(RunPostUniverse, MaxPosts)}

RunSettingsUniverse ==
    [exportFormat : {"jpg", "png"},
     createCombinedImages : BOOLEAN,
     rearPhotoLarge : {TRUE},
     sinceDate : {<<>>},
     endDate : {<<>>},
     fallbackTimezone : {<<>>, <<"UTC">>, <<"Mars/Phobos">>},
     timezoneOverrides : {<<>>, << Span(<<>>, DateText(2024, 3, 31), <<"America/New_York">>) >>}]

InitRun ==
    /\ inputZip \in RunZipUniverse
    /\ settings \in RunSettingsUniverse
    /\ PlainlyPacked
    /\ Fresh

SpecRun == InitRun /\ [][Next]_vars

\* The run is one async function: each step awaits the one before it, and every
\* awaited operation of the browser settles, so a step that can be taken is taken.
\* The first step is enabled when the function is called, the loop bodies exactly
\* where the loop conditions of lines 1018 and 1125 hold; their weak fairness is
\* written with that condition in the place of ENABLED.
LoadManifestEnabled == pc = "start"
BeginPostEnabled == pc = "processing" /\ index < Len(filteredPosts)
CombineOneEnabled == pc = "combining" /\ index < Len(combineCandidates)

FairLoadManifest == ([]<>~LoadManifestEnabled) \/ ([]<><<LoadManifest>>_vars)
FairBeginPost == ([]<>~BeginPostEnabled) \/ ([]<><<BeginPost>>_vars)
FairCombineOne == ([]<>~CombineOneEnabled) \/ ([]<><<CombineOne>>_vars)

\* Runs in which something fails for a Post, a file or an image, or is fatal.
TerminationPostUniverse ==
    {PlainPost,
     [PlainPost EXCEPT !.secondary = "bad.webp"],
     [PlainPost EXCEPT !.primary = "null"],
     [PlainPost EXCEPT !.location = Location(Number(95), Number(0))],
     [PlainPost EXCEPT !.caption = [isString |-> TRUE, bytes |-> 70000]]}

InitTermination ==
    /\ inputZip \in
          {[manifest |-> m, posts |-> <<>>] : m \in {"noRoot", "noPostsObject", "badJson", "notArray"}}
          \cup {[manifest |-> "ok", posts |-> p] : p \in SeqsUpTo(TerminationPostUniverse, MaxPosts)}
    /\ settings \in RunSettingsUniverse
    /\ PlainlyPacked
    /\ Fresh

SpecTermination ==
    /\ InitTermination
    /\ [][Next]_vars
    /\ FairLoadManifest
    /\ WF_vars(FilterPosts)
    /\ WF_vars(ValidateSettings)
    /\ FairBeginPost
    /\ WF_vars(ProcessRole)
    /\ WF_vars(EndPost)
    /\ WF_vars(StartCombining)
    /\ FairCombineOne
    /\ WF_vars(Package)
    /\ WF_vars(Complete)

\* Runs over well-formed override spans whose windows begin or end on the days
\* of the Posts: Posts without location taken at 2024-03-30 23:30:00 UTC (the
\* 31st in Berlin), at 2024-03-31 00:30:00 UTC (the 30th in New York) and at
\* 2024-04-01 12:00:00 UTC.
WindowSpanUniverse ==
    {Span(DateText(2024, 3, 31), <<>>, <<"America/New_York">>),
     Span(<<>>, DateText(2024, 3, 30), <<"America/New_York">>),
     Span(DateText(2024, 3, 31), DateText(2024, 3, 31), <<"Europe/Berlin">>),
     Span(DateText(2024, 3, 31), DateText(2024, 3, 31), <<"UTC">>),
     Span(<<>>, <<>>, <<"Europe/Berlin">>)}

WindowPostUniverse ==
    {[PlainPost EXCEPT !.takenAt = Instant(t)] : t \in {TakenD, TakenA, TakenC}}

InitWindows ==
    /\ inputZip \in {[manifest |-> "ok", posts |-> p] : p \in SeqsUpTo(WindowPostUniverse, MaxPosts)}
    /\ settings \in [exportFormat : {"jpg"},
                      createCombinedImages : {TRUE},
                      rearPhotoLarge : {TRUE},
                      sinceDate : {<<>>},
                      endDate : {<<>>},
                      fallbackTimezone : {<<>>, <<"UTC">>},
                      timezoneOverrides : SeqsUpTo(WindowSpanUniverse, MaxSpans)]
    /\ PlainlyPacked
    /\ Fresh

SpecWindows == InitWindows /\ [][Next]_vars

\* Runs over Posts with and without a usable location, all taken at
\* 2024-03-31 00:30:00 UTC, under override spans that cover that instant: a
\* coordinate is a finite number, is missing, is a number that is not finite
\* (1e999 in the manifest) or is a string.
LocatedPostUniverse ==
    {[PlainPost EXCEPT !.location = l] :
        l \in {NoLocation,
               Location(Number(52), Number(13)),
               Location(Number(95), Number(0)),
               Location(Number(10), Number(10)),
               Location(Number(52), [kind |-> "missing", value |-> 0]),
               Location([kind |-> "nonfinite", value |-> 0], Number(13)),
               Location(Number(40), [kind |-> "string", value |-> 0])}}

LocatedSpanUniverse ==
    {Span(<<>>, DateText(2024, 3, 31), <<"America/New_York">>),
     Span(<<>>, <<>>, <<"America/St_Johns">>)}

InitLocated ==
    /\ inputZip \in {[manifest |-> "ok", posts |-> p] : p \in SeqsUpTo(LocatedPostUniverse, MaxPosts)}
    /\ settings \in [exportFormat : {"jpg"},
                      createCombinedImages : {TRUE},
                      rearPhotoLarge : {TRUE},
                      sinceDate : {<<>>},
                      endDate : {<<>>},
                      fallbackTimezone : {<<>>, <<"UTC">>},
                      timezoneOverrides : SeqsUpTo(LocatedSpanUniverse, MaxSpans)]
    /\ PlainlyPacked
    /\ Fresh

SpecLocated == InitLocated /\ [][Next]_vars

\* Entry listings: manifests and images at the root of the archive and in
\* wrapper folders, a misplaced image, a directory entry, and names that differ
\* in case, in separators and in a leading "./".
EntryUniverse ==
    {ZipObject(<<"posts.json">>, FALSE),
     ZipObject(<<"Photos", "/", "post", "/", "a.webp">>, FALSE),
     ZipObject(<<"export", "/", "data", "/", "posts.json">>, FALSE),
     ZipObject(<<"export", "/", "data", "/", "Photos", "/", "post", "/", "a.webp">>, FALSE),
     ZipObject(<<"other", "/", "a.webp">>, FALSE),
     ZipObject(<<"wrap", "/", "Photos", "/", "bereal", "/", "a.webp">>, FALSE),
     ZipObject(<<"wrap", "/", "Photos", "/", "post", "/", "a.webp">>, FALSE),
     ZipObject(<<"Photos", "/">>, TRUE),
     ZipObject(<<".", "/", "export", "/", "/", "POSTS.JSON">>, FALSE),
     ZipObject(<<"export", "\\", "photos", "\\", "A.webp">>, FALSE)}

MaxEntries == 4

\* zip.files has one object per name.
Listings(entries, n) ==
    {files \in SeqsUpTo(entries, n) :
        \A i, j \in 1..Len(files) : i # j => files[i].name # files[j].name}

LookupSettings ==
    [exportFormat |-> "jpg", createCombinedImages |-> TRUE, rearPhotoLarge |-> TRUE,
     sinceDate |-> <<>>, endDate |-> <<>>, fallbackTimezone |-> <<"UTC">>,
     timezoneOverrides |-> <<>>]

InitLookup ==
    /\ zipFiles \in Listings(EntryUniverse, MaxEntries)
    /\ inputZip = [manifest |-> "ok", posts |-> <<>>]
    /\ settings = LookupSettings
    /\ Fresh

SpecLookup == InitLookup /\ [][FindExportRootPrefix \/ FindImageObject]_vars

\* Calls of addIptcToJpeg.
InitJpeg ==
    /\ inputZip = [manifest |-> "ok", posts |-> <<>>]
    /\ settings = LookupSettings
    /\ PlainlyPacked
    /\ Fresh

SpecJpeg ==
    InitJpeg /\ [][AddIptcToJpeg \/ BuildIptcApp13Segment \/ FindJpegMetadataInsertOffset
                   \/ WalkMarkers \/ MergeSegment]_vars

\* Calls of the formatters of the metadata.
SpecExif == InitJpeg /\ [][WriteDateTime \/ WriteGps]_vars

(***************************************************************************)
(* The page: file selections and the completions of their requests          *)
(***************************************************************************)
PageFiles == {"march.zip", "april.zip", "undated.zip", "notes.txt"}

MaxRequests == 3

\* Lines 237-264: handleFile up to its await.  Of the state it resets, the file,
\* the bounds, the two dates and the detecting flag are kept here.
HandleFile ==
    /\ page.requestId < MaxRequests
    /\ \E newFile \in {"null"} \cup PageFiles :
          page' = [page EXCEPT
                !.requestId = @ + 1,
                !.file = newFile,
                !.dateBounds = PageNull,
                !.isDetectingDateBounds = (newFile # "null"),
                !.sinceDate = IF newFile = "null" THEN "" ELSE @,
                !.endDate = IF newFile = "null" THEN "" ELSE @,
                !.requests = Append(@, [file |-> newFile,
                                        state |-> IF newFile = "null" THEN "returned"
                                                  ELSE "pending"])]
    /\ UNCHANGED <<server, exif, jpeg, zipFiles, lookup, inputZip, settings, pc,
                   filteredPosts, fallbackTimezone, timezoneOverrides, index, cur,
                   warnings, iptcEmbeddingFailed, processedSingles, combineCandidates,
                   singleNameSet, combinedFiles, combinedNameSet, outputZip, events,
                   decoded, outcome, dateBounds>>

\* Lines 266-299: handleFile after its await, for the request with this id.
ResolveRequest ==
    /\ \E requestId \in 1..Len(page.requests) :
          /\ page.requests[requestId].state = "pending"
          /\ \E nextBounds \in {ExportDateBoundsOf(page.requests[requestId].file)} :
                page' = IF ~IsCurrentRequest(page.requestId, requestId)
                        THEN [page EXCEPT !.requests[requestId].state = "returned"]
                        ELSE [page EXCEPT
                                !.requests[requestId].state = "returned",
                                !.dateBounds = IF nextBounds.kind = "bounds"
                                               THEN nextBounds ELSE @,
                                !.sinceDate = IF nextBounds.kind = "bounds"
                                              THEN nextBounds.earliestDate ELSE "",
                                !.endDate = IF nextBounds.kind = "bounds"
                                            THEN nextBounds.latestDate ELSE "",
                                !.isDetectingDateBounds = FALSE]
    /\ UNCHANGED <<server, exif, jpeg, zipFiles, lookup, inputZip, settings, pc,
                   filteredPosts, fallbackTimezone, timezoneOverrides, index, cur,
                   warnings, iptcEmbeddingFailed, processedSingles, combineCandidates,
                   singleNameSet, combinedFiles, combinedNameSet, outputZip, events,
                   decoded, outcome, dateBounds>>

SpecPage == InitJpeg /\ [][HandleFile \/ ResolveRequest]_vars

(***************************************************************************)
(* The server route: extraction of an uploaded archive                     *)
(***************************************************************************)
ZipEntry(entryName, isDirectory) == [entryName |-> entryName, isDirectory |-> isDirectory]

\* Entries of an uploaded archive: files and folders of an export, names that
\* leave the directory by "..", an absolute name, a name that leaves and comes
\* back, names that resolve into a sibling directory whose name begins with the
\* name of the temporary directory, an empty name, and a file named as a folder.
ZipEntryUniverse ==
    {ZipEntry(<<"posts.json">>, FALSE),
     ZipEntry(<<"Photos", "/", "a.webp">>, FALSE),
     ZipEntry(<<"Photos", "/">>, TRUE),
     ZipEntry(<<"Photos">>, FALSE),
     ZipEntry(<<"..", "/", "evil.sh">>, FALSE),
     ZipEntry(<<"/", "etc", "/", "passwd">>, FALSE),
     ZipEntry(<<"Photos", "/", "..", "/", "..", "/", "bereal-", "Ab12Cd", "/", "b.webp">>, FALSE),
     ZipEntry(<<"..", "/", "bereal-", "Ab12Cd", "-old", "/", "evil.sh">>, FALSE),
     ZipEntry(<<"..", "/", "bereal-", "Ab12Cd", "-old", "/">>, TRUE),
     ZipEntry(<<>>, FALSE)}

MaxZipEntries == 3

\* Lines 69-76: the entries of the archive, and the first progress event.
ExtractZipSafely ==
    /\ server.pc = "idle"
    /\ \E entries \in SeqsUpTo(ZipEntryUniverse, MaxZipEntries) :
          server' = [server EXCEPT
                !.pc = "extracting",
                !.entries = entries,
                !.progress = IF Len(entries) > 0
                             THEN <<[current |-> 0, total |-> Len(entries)]>> ELSE <<>>]
    /\ UNCHANGED <<page, exif, jpeg, zipFiles, lookup, inputZip, settings, pc,
                   filteredPosts, fallbackTimezone, timezoneOverrides, index, cur,
                   warnings, iptcEmbeddingFailed, processedSingles, combineCandidates,
                   singleNameSet, combinedFiles, combinedNameSet, outputZip, events,
                   decoded, outcome, dateBounds>>

\* Lines 84-99 for an entry the loop does not skip, made being the directory
\* it makes: the directory, or the directory of the file and the file; a
\* rejection of fs ends the call.
ExtractInto(targetPath, isDirectory, made) ==
    IF MkdirRejects(server.files, made)
    THEN [server EXCEPT !.pc = "failed"]
    ELSE IF ~isDirectory /\ WriteFileRejects(server.dirs \cup PathAndAbove(made), targetPath)
    THEN [server EXCEPT !.pc = "failed",
                        !.dirs = @ \cup PathAndAbove(made)]
    ELSE [server EXCEPT
            !.i = @ + 1,
            !.dirs = @ \cup PathAndAbove(made),
            !.files = IF isDirectory THEN @ ELSE @ \cup {targetPath},
            !.extractedCount = @ + 1,
            !.progress = Append(@, [current |-> server.extractedCount + 1,
                                    total |-> Len(server.entries)])]

ExtractTo(targetPath, isDirectory) ==
    ExtractInto(targetPath, isDirectory,
                IF isDirectory THEN targetPath ELSE pathDirname(targetPath))

\* Lines 78-99: one pass of the loop over the entries.
ExtractEntry ==
    /\ server.pc = "extracting"
    /\ server.i < Len(server.entries)
    /\ \E entry \in {server.entries[server.i + 1]} :
          server' = IF entry.entryName = <<>> \/ ~isSafeEntry(DestDir, entry.entryName)
                    THEN [server EXCEPT !.i = @ + 1]
                    ELSE ExtractTo(pathResolve(DestDir, entry.entryName), entry.isDirectory)
    /\ UNCHANGED <<page, exif, jpeg, zipFiles, lookup, inputZip, settings, pc,
                   filteredPosts, fallbackTimezone, timezoneOverrides, index, cur,
                   warnings, iptcEmbeddingFailed, processedSingles, combineCandidates,
                   singleNameSet, combinedFiles, combinedNameSet, outputZip, events,
                   decoded, outcome, dateBounds>>

\* Line 101: the loop is over and the promise resolves.
ExtractReturn ==
    /\ server.pc = "extracting"
    /\ server.i = Len(server.entries)
    /\ server' = [server EXCEPT !.pc = "done"]
    /\ UNCHANGED <<page, exif, jpeg, zipFiles, lookup, inputZip, settings, pc,
                   filteredPosts, fallbackTimezone, timezoneOverrides, index, cur,
                   warnings, iptcEmbeddingFailed, processedSingles, combineCandidates,
                   singleNameSet, combinedFiles, combinedNameSet, outputZip, events,
                   decoded, outcome, dateBounds>>

SpecServer == InitJpeg /\ [][ExtractZipSafely \/ ExtractEntry \/ ExtractReturn]_vars

\* Whole runs, and the bounds query, over entry listings with and without a
\* manifest and a Photos folder.
ArchiveEntryUniverse ==
    {ZipObject(<<"posts.json">>, FALSE),
     ZipObject(<<"Photos", "/", "post", "/", "a.webp">>, FALSE),
     ZipObject(<<"export", "/", "data", "/", "posts.json">>, FALSE),
     ZipObject(<<"other", "/", "a.webp">>, FALSE),
     ZipObject(<<"wrap", "/", "Photos", "/", "bereal", "/", "a.webp">>, FALSE),
     ZipObject(<<"Photos", "/">>, TRUE)}

InitArchive ==
    /\ zipFiles \in Listings(ArchiveEntryUniverse, MaxEntries)
    /\ inputZip = [manifest |-> "ok", posts |-> <<PlainPost>>]
    /\ settings = LookupSettings
    /\ Fresh

SpecArchive == InitArchive /\ [][FindExportRootPrefix \/ ExtractExportDateBounds \/ Next]_vars


(***************************************************************************)
(* Properties                                                              *)
(***************************************************************************)
Names(files) == {files[i].name : i \in 1..Len(files)}

\* A timestamp has 19 characters; an output name is the timestamp, "_", the role,
\* an optional "_<counter>" and the two tokens of the extension.
TimestampLength == Len(formatTimestampUtc(0))

\* The counter an output name carries before its extension, 0 for none.
SuffixNumber(name) ==
    IF Len(name) = TimestampLength + 4 THEN 0
    ELSE parseInt(SubSeq(name, TimestampLength + 4, Len(name) - 2))

\* The name without its counter.
BaseName(name) == SubSeq(name, 1, TimestampLength + 2) \o SubSeq(name, Len(name) - 1, Len(name))

\* The name with "_<counter>" put before the extension.
WithSuffix(base, counter) ==
    SubSeq(base, 1, Len(base) - 2) \o <<"_">> \o String(counter)
    \o SubSeq(base, Len(base) - 1, Len(base))

\* In a list of files named one after the other: no two names are equal, and a
\* name with the counter k follows its plain name and the names with the
\* counters 1 .. k-1.
NamedInOrder(files) ==
    /\ \A i, j \in 1..Len(files) : i # j => files[i].name # files[j].name
    /\ \A i \in 1..Len(files) :
          LET name    == files[i].name
              earlier == {files[j].name : j \in 1..(i - 1)}
          IN /\ name[TimestampLength + 1] = "_"
             /\ name[TimestampLength + 2] \in {"primary", "secondary", "combined"}
             /\ SubSeq(name, Len(name) - 1, Len(name)) = ExtensionOf(settings.exportFormat)
             /\ SuffixNumber(name) > 0 =>
                   /\ BaseName(name) \in earlier
                   /\ \A k \in 1..(SuffixNumber(name) - 1) :
                         WithSuffix(BaseName(name), k) \in earlier

AfterPostLoop == {"combining", "packaging", "complete", "done"}

\* The timezone settings were accepted: the first processing event was emitted.
ValidationPassed == \E i \in 1..Len(events) : events[i].stage = "processing"

\* The Post has both image references and the archive holds both files.
Attempted(entry) ==
    /\ entry.primary # "null" /\ entry.secondary # "null"
    /\ entry.primary \in ArchiveFiles /\ entry.secondary \in ArchiveFiles

\* The image files the Post loop decodes for the first n Posts, in order.
RECURSIVE ExpectedDecodes(_, _)
ExpectedDecodes(posts, n) ==
    IF n = 0 THEN <<>>
    ELSE ExpectedDecodes(posts, n - 1)
         \o (IF Attempted(posts[n].entry)
             THEN <<posts[n].entry.primary, posts[n].entry.secondary>> ELSE <<>>)

Decodable(file) == file \in DecodableFiles
Undecodable(file) == file \notin DecodableFiles

\* C2: with createCombinedImages the result holds the combined images and no
\* single; without it the result holds every single that was processed, one per
\* decodable image of a Post that was not skipped, in order, and no combined image.
C2_ExportSet ==
    outcome.kind = "result" =>
       /\ outcome.blob = outcome.shareFiles
       /\ outcome.exportedCount = Len(outcome.shareFiles)
       /\ IF settings.createCombinedImages
          THEN /\ outcome.shareFiles = combinedFiles
               /\ \A i \in 1..Len(outcome.shareFiles) :
                     /\ outcome.shareFiles[i].blob.kind = "combined"
                     /\ outcome.shareFiles[i].name[TimestampLength + 2] = "combined"
          ELSE /\ outcome.shareFiles = processedSingles
               /\ [i \in 1..Len(outcome.shareFiles) |-> outcome.shareFiles[i].blob.sources[1]]
                     = SelectSeq(ExpectedDecodes(filteredPosts, Len(filteredPosts)), Decodable)
               /\ \A i \in 1..Len(outcome.shareFiles) :
                     /\ outcome.shareFiles[i].blob.kind = "single"
                     /\ outcome.shareFiles[i].name[TimestampLength + 2] \in {"primary", "secondary"}

\* A run with createCombinedImages that made singles and a combined image.
C2_Witness ==
    /\ outcome.kind = "result"
    /\ settings.createCombinedImages
    /\ Len(processedSingles) > 1
    /\ Len(outcome.shareFiles) > 0

\* The Post carries two finite coordinates.
HasUsableLocation(location) ==
    location.present /\ location.latitude.kind = "number" /\ location.longitude.kind = "number"

\* A date as a number that orders as the calendar does.
DateOrdinal(year, month, day) == year * 10000 + month * 100 + day

\* The ordinal of a YYYY-MM-DD string, and of the civil day of an instant in a zone.
StringOrdinal(date) ==
    DateOrdinal(parseInt(SubSeq(date, 1, 4)), parseInt(SubSeq(date, 6, 7)),
                parseInt(SubSeq(date, 9, 10)))

LocalOrdinal(ms, zone) ==
    LET d == CalendarDays[((ms + ZoneOffsetMs(zone, ms)) \div MsPerDay) + 1]
    IN DateOrdinal(d.year, d.month, d.day)

\* The span covers the instant: the civil day of the instant in the span's zone
\* lies within the span's dates, a missing date being no bound.
SpanMatches(span, ms) ==
    /\ span.startDate # <<>> => StringOrdinal(span.startDate) <= LocalOrdinal(ms, span.timeZone[1])
    /\ span.endDate # <<>> => LocalOrdinal(ms, span.timeZone[1]) <= StringOrdinal(span.endDate)

\* No zone can be resolved for the Post: no usable location, no span, no fallback.
Unresolvable(post) ==
    /\ ~HasUsableLocation(post.entry.location)
    /\ \A k \in 1..Len(timezoneOverrides) : ~SpanMatches(timezoneOverrides[k], post.takenAt)
    /\ fallbackTimezone = <<>>

\* C3: when the settings are accepted and a filtered Post has no usable location,
\* matches no override span and no fallback is configured, the run returns no
\* result: it never gets past that Post, and it ends in a zone-resolution error,
\* however many Posts were processed before.
C3_NoZoneFailsRun ==
    ValidationPassed =>
       \A i \in 1..Len(filteredPosts) :
          Unresolvable(filteredPosts[i]) =>
             /\ outcome.kind # "result"
             /\ pc \notin AfterPostLoop
             /\ index < i
             /\ pc = "failed" => outcome.error.kind \in {"zoneNoLocation", "zoneLookup"}
             /\ (index = i - 1 /\ pc # "processing") =>
                   (pc = "failed" /\ outcome.error.kind = "zoneNoLocation")

\* The run failed at a Post without a zone after it exported an earlier Post.
C3_Witness ==
    /\ pc = "failed"
    /\ outcome.error.kind = "zoneNoLocation"
    /\ index = 1
    /\ Unresolvable(filteredPosts[2])
    /\ Len(processedSingles) = 2

\* The lookup of the Post's coordinates throws or yields a zone Intl rejects.
LookupFails(location) ==
    /\ HasUsableLocation(location)
    /\ \/ tzLookup(location.latitude.value, location.longitude.value).threw
       \/ tzLookup(location.latitude.value, location.longitude.value).timeZone
             \notin { <<z>> : z \in ValidTimeZones }

\* The loop has taken up the Post at position i of the filtered Posts.
PostReached(i) ==
    \/ pc \in AfterPostLoop
    \/ index >= i
    \/ (index = i - 1 /\ pc \in {"role", "endpost"})

\* C4: for a Post whose location lookup fails, a configured fallback zone is used
\* for the Post, a warning is recorded and the run goes on; without a fallback
\* the run fails at that Post with a zone-resolution error.
C4_LookupFailure ==
    ValidationPassed =>
       \A i \in 1..Len(filteredPosts) :
          LookupFails(filteredPosts[i].entry.location) =>
             IF fallbackTimezone # <<>>
             THEN /\ outcome.kind # "error"
                  /\ PostReached(i) =>
                        \E w \in 1..Len(warnings) :
                           /\ warnings[w].kind = "fallbackUsed"
                           /\ warnings[w].timeZone = fallbackTimezone
                           /\ warnings[w].timestamp = formatTimestampUtc(filteredPosts[i].takenAt)
                  /\ (index = i - 1 /\ pc \in {"role", "endpost"}) =>
                        /\ cur.timeZone = fallbackTimezone
                        /\ cur.timestamp = formatTimestampInTimeZone(filteredPosts[i].takenAt,
                                                                     fallbackTimezone)
             ELSE /\ outcome.kind # "result"
                  /\ pc \notin AfterPostLoop
                  /\ index < i
                  /\ (index = i - 1 /\ pc # "processing") =>
                        (pc = "failed" /\ outcome.error.kind = "zoneLookup")

\* A Post whose lookup fails was exported under the fallback zone, after a Post
\* that needed no fallback.
C4_Witness ==
    /\ outcome.kind = "result"
    /\ Len(filteredPosts) = 2
    /\ ~LookupFails(filteredPosts[1].entry.location)
    /\ LookupFails(filteredPosts[2].entry.location)
    /\ Len(processedSingles) = 4
    /\ \E w \in 1..Len(outcome.warnings) : outcome.warnings[w].kind = "fallbackUsed"

\* The image files the Post loop has decoded by now, were every role attempted.
LoopDecodes ==
    IF pc \in AfterPostLoop THEN ExpectedDecodes(filteredPosts, Len(filteredPosts))
    ELSE ExpectedDecodes(filteredPosts, index)
         \o (IF pc = "role" /\ cur.role = "secondary"
             THEN <<filteredPosts[index + 1].entry.primary>>
             ELSE IF pc = "endpost"
             THEN <<filteredPosts[index + 1].entry.primary,
                    filteredPosts[index + 1].entry.secondary>>
             ELSE <<>>)

\* C10: an image of a Post that cannot be processed costs a warning and nothing
\* else: the loop attempts both roles of every Post it does not skip, in order,
\* each decodable image yields its single, each other one a warning, and a
\* failed role never ends the run.
C10_RoleFailureIsolated ==
    /\ Len(decoded) >= Len(LoopDecodes)
    /\ SubSeq(decoded, 1, Len(LoopDecodes)) = LoopDecodes
    /\ pc \notin AfterPostLoop => decoded = LoopDecodes
    /\ [i \in 1..Len(processedSingles) |-> processedSingles[i].blob.sources[1]]
          = SelectSeq(LoopDecodes, Decodable)
    /\ Cardinality({w \in 1..Len(warnings) : warnings[w].kind = "roleFailed"})
          = Len(SelectSeq(LoopDecodes, Undecodable))
    /\ outcome.kind = "error" =>
          outcome.error.kind \in {"noRoot", "noPostsObject", "badJson", "fallbackInvalid",
                                  "overrideMissingTimezone", "overrideInvalidTimezone",
                                  "overrideStartInvalid", "overrideEndInvalid",
                                  "overrideStartAfterEnd", "zoneNoLocation", "zoneLookup"}

\* The primary image of the first Post could not be decoded; its secondary image
\* and both images of the next Post were exported.
C10_Witness ==
    /\ outcome.kind = "result"
    /\ Len(filteredPosts) = 2
    /\ Undecodable(filteredPosts[1].entry.primary)
    /\ Len(processedSingles) = 3
    /\ \E w \in 1..Len(outcome.warnings) :
          outcome.warnings[w].kind = "roleFailed" /\ outcome.warnings[w].role = "primary"

\* The rows of the normalized override list that cover the instant.
MatchingSpans(ms) ==
    {k \in 1..Len(timezoneOverrides) : SpanMatches(timezoneOverrides[k], ms)}

HighestOf(S) == CHOOSE k \in S : \A j \in S : j <= k

\* C5: a Post without location that several override spans cover is given the
\* zone of the covering span with the highest list index, and its files are named
\* by the local time in that zone.
C5_LaterSpanWins ==
    (pc \in {"role", "endpost"} /\ ~HasUsableLocation(filteredPosts[index + 1].entry.location)
       /\ MatchingSpans(filteredPosts[index + 1].takenAt) # {}) =>
       /\ cur.timeZone
             = timezoneOverrides[HighestOf(MatchingSpans(filteredPosts[index + 1].takenAt))].timeZone
       /\ cur.timestamp = formatTimestampInTimeZone(filteredPosts[index + 1].takenAt, cur.timeZone)

\* Two spans of different zones cover the Post, and no fallback is configured.
C5_Witness ==
    /\ pc = "role"
    /\ fallbackTimezone = <<>>
    /\ Cardinality(MatchingSpans(filteredPosts[index + 1].takenAt)) = 2
    /\ timezoneOverrides[1].timeZone # timezoneOverrides[2].timeZone

\* The days of a month.
DaysInMonth(year, month) ==
    IF month = 2
    THEN (IF year % 4 = 0 /\ (year % 100 # 0 \/ year % 400 = 0) THEN 29 ELSE 28)
    ELSE IF month \in {4, 6, 9, 11} THEN 30 ELSE 31

\* The text is YYYY-MM-DD and names a day of the calendar.
IsCalendarDate(text) ==
    /\ Len(text) = 10
    /\ \A i \in {1, 2, 3, 4, 6, 7, 9, 10} : IsDigit(text[i])
    /\ text[5] = "-" /\ text[8] = "-"
    /\ parseInt(SubSeq(text, 6, 7)) \in 1..12
    /\ parseInt(SubSeq(text, 9, 10))
          \in 1..DaysInMonth(parseInt(SubSeq(text, 1, 4)), parseInt(SubSeq(text, 6, 7)))

IsBlank(text) == \A i \in 1..Len(text) : text[i] = " "

\* A row of the settings in which something is filled in and which the
\* specification calls invalid: no zone, an unknown zone, a start or end that is
\* no calendar date, or a start after the end.
SpanInvalid(span) ==
    /\ ~(IsBlank(span.startDate) /\ IsBlank(span.endDate) /\ IsBlank(span.timeZone))
    /\ \/ IsBlank(span.timeZone)
       \/ trim(span.timeZone) \notin { <<z>> : z \in ValidTimeZones }
       \/ (~IsBlank(span.startDate) /\ ~IsCalendarDate(trim(span.startDate)))
       \/ (~IsBlank(span.endDate) /\ ~IsCalendarDate(trim(span.endDate)))
       \/ /\ IsCalendarDate(trim(span.startDate)) /\ IsCalendarDate(trim(span.endDate))
          /\ StringOrdinal(trim(span.startDate)) > StringOrdinal(trim(span.endDate))

FallbackInvalid(fallback) ==
    ~IsBlank(fallback) /\ trim(fallback) \notin { <<z>> : z \in ValidTimeZones }

ValidationErrors ==
    {"fallbackInvalid", "overrideMissingTimezone", "overrideInvalidTimezone",
     "overrideStartInvalid", "overrideEndInvalid", "overrideStartAfterEnd"}

\* C6: with an invalid fallback zone or an invalid override span the run fails
\* at validation: no processing event is emitted, no image is decoded and no file
\* is produced, and once the settings are read the run has ended in a validation
\* error.
C6_InvalidSettingsFailFirst ==
    (FallbackInvalid(settings.fallbackTimezone)
       \/ \E k \in 1..Len(settings.timezoneOverrides) : SpanInvalid(settings.timezoneOverrides[k])) =>
       /\ ~ValidationPassed
       /\ decoded = <<>>
       /\ processedSingles = <<>> /\ combinedFiles = <<>> /\ outputZip = <<>>
       /\ outcome.kind # "result"
       /\ pc \notin {"start", "filter", "validate"} =>
             (pc = "failed" /\ outcome.error.kind \in ValidationErrors)

\* A run with a span that ends on 2024-02-31 emitted a processing event and
\* decoded an image.
C6_Witness ==
    /\ \E k \in 1..Len(settings.timezoneOverrides) :
          settings.timezoneOverrides[k].endDate = DateText(2024, 2, 31)
    /\ ValidationPassed
    /\ decoded # <<>>

\* C7: every override span with a blank zone, an invalid zone identifier, a start
\* or end that is no calendar date, or a start after its end fails the run: the
\* settings are never accepted and no result is returned.
C7_InvalidSpanFailsRun ==
    \A k \in 1..Len(settings.timezoneOverrides) :
       SpanInvalid(settings.timezoneOverrides[k]) =>
          /\ timezoneOverrides = <<>>
          /\ outcome.kind # "result"
          /\ pc \in {"start", "filter", "validate", "failed"}

\* A run returned its result although a span ends on 2024-02-31; the span was
\* accepted as it stands.
C7_Witness ==
    /\ outcome.kind = "result"
    /\ Len(timezoneOverrides) = 1
    /\ timezoneOverrides[1].endDate = DateText(2024, 2, 31)
    /\ outcome.exportedCount > 0

\* The entry has a takenAt that is a date, and its UTC day lies within the
\* configured bounds, each bound included and an empty bound being none.
InDateBounds(entry) ==
    /\ entry.takenAt.kind = "instant"
    /\ settings.sinceDate # <<>> =>
          StringOrdinal(settings.sinceDate) <= LocalOrdinal(entry.takenAt.ms, "UTC")
    /\ settings.endDate # <<>> =>
          LocalOrdinal(entry.takenAt.ms, "UTC") <= StringOrdinal(settings.endDate)

\* C8: the Posts retained by the date filter are those of the manifest whose UTC
\* calendar date d satisfies sinceDate <= d <= endDate, in manifest order, both
\* bounds included and an empty bound unbounded; the Post loop runs over these
\* Posts and no others.
C8_InclusiveDateFilter ==
    pc \notin {"start", "filter"} =>
       /\ [i \in 1..Len(filteredPosts) |-> filteredPosts[i].entry]
             = SelectSeq(inputZip.posts, InDateBounds)
       /\ \A e \in 1..Len(events) :
             events[e].stage = "processing" =>
                events[e].total = Len(SelectSeq(inputZip.posts, InDateBounds))
       /\ index <= Len(SelectSeq(inputZip.posts, InDateBounds))
       /\ Len(processedSingles) <= 2 * Len(SelectSeq(inputZip.posts, InDateBounds))
       /\ pc \in AfterPostLoop =>
             Len(processedSingles) = 2 * Len(SelectSeq(inputZip.posts, InDateBounds))

\* Of two Posts, the one dated exactly sinceDate and exactly endDate was
\* exported, the one dated the day before was not.
C8_Witness ==
    /\ outcome.kind = "result"
    /\ settings.sinceDate = DateText(2024, 3, 31)
    /\ settings.endDate = DateText(2024, 3, 31)
    /\ Len(inputZip.posts) = 2
    /\ inputZip.posts[1].takenAt = Instant(TakenA)
    /\ inputZip.posts[2].takenAt = Instant(TakenD)
    /\ Len(filteredPosts) = 1
    /\ Len(processedSingles) = 2

\* The entries of the manifest whose takenAt is a date.
DatedEntries ==
    IF inputZip.manifest # "ok" THEN {}
    ELSE {i \in 1..Len(inputZip.posts) : inputZip.posts[i].takenAt.kind = "instant"}

\* C9: extractExportDateBounds returns null when the archive has no manifest, the
\* manifest does not parse or no entry has a takenAt that is a date; otherwise
\* earliestDate <= the UTC date of every such entry <= latestDate, and each bound
\* is the date of some entry.
C9_DateBounds ==
    pc = "boundsDone" =>
       IF DatedEntries = {} THEN dateBounds = NullBounds
       ELSE /\ ~dateBounds.isNull
            /\ IsCalendarDate(dateBounds.earliestDate)
            /\ IsCalendarDate(dateBounds.latestDate)
            /\ \A i \in DatedEntries :
                  /\ StringOrdinal(dateBounds.earliestDate)
                        <= LocalOrdinal(inputZip.posts[i].takenAt.ms, "UTC")
                  /\ LocalOrdinal(inputZip.posts[i].takenAt.ms, "UTC")
                        <= StringOrdinal(dateBounds.latestDate)
            /\ \E i \in DatedEntries :
                  StringOrdinal(dateBounds.earliestDate)
                     = LocalOrdinal(inputZip.posts[i].takenAt.ms, "UTC")
            /\ \E i \in DatedEntries :
                  StringOrdinal(dateBounds.latestDate)
                     = LocalOrdinal(inputZip.posts[i].takenAt.ms, "UTC")

\* The bounds of a manifest whose later Post comes first.
C9_Witness ==
    /\ pc = "boundsDone"
    /\ Len(inputZip.posts) = 2
    /\ inputZip.posts[1].takenAt = Instant(TakenC)
    /\ inputZip.posts[2].takenAt = Instant(TakenD)
    /\ dateBounds = [isNull |-> FALSE, earliestDate |-> DateText(2024, 3, 30),
                     latestDate |-> DateText(2024, 4, 1)]

\* The files made so far, wherever they are held.
AllFiles ==
    processedSingles \o combinedFiles \o outputZip
    \o (IF outcome.kind = "result" THEN outcome.shareFiles \o outcome.blob ELSE <<>>)

\* The Post refers to two files, the archive holds the primary and not the secondary.
OrphanPrimary(entry) ==
    /\ entry.primary # "null" /\ entry.secondary # "null"
    /\ entry.primary \in ArchiveFiles
    /\ entry.secondary \notin ArchiveFiles

\* The loop is done with the Post at position i of the filtered Posts.
PostPassed(i) == pc \in AfterPostLoop \/ (pc \in {"processing", "role", "endpost"} /\ index >= i)

\* The Posts among the first n that refer to two files of which one is not in the
\* archive.
FileMissingPosts(n) ==
    {i \in 1..n : /\ filteredPosts[i].entry.primary # "null"
                  /\ filteredPosts[i].entry.secondary # "null"
                  /\ ~Attempted(filteredPosts[i].entry)}

\* C11: a Post whose secondary file is missing from the archive while its primary
\* is present is skipped with a warning: its primary is never decoded, no single
\* and no combined image shows it, in the lists, the archive or the result, and
\* the loop goes from it straight to the next Post.
C11_NoOrphanSingle ==
    /\ \A i \in 1..Len(filteredPosts) :
          OrphanPrimary(filteredPosts[i].entry) =>
             /\ \A f \in 1..Len(AllFiles) :
                   (\A j \in 1..Len(filteredPosts) :
                       filteredPosts[j].entry.primary = filteredPosts[i].entry.primary
                          => OrphanPrimary(filteredPosts[j].entry))
                   => \A k \in 1..Len(AllFiles[f].blob.sources) :
                         AllFiles[f].blob.sources[k] # filteredPosts[i].entry.primary
             /\ index = i - 1 => pc \notin {"role", "endpost"}
    /\ pc \in {"processing"} \cup AfterPostLoop =>
          Cardinality({w \in 1..Len(warnings) : warnings[w].kind = "fileMissing"})
             = Cardinality(FileMissingPosts(IF pc = "processing" THEN index
                                            ELSE Len(filteredPosts)))

\* With combine mode on, a run exported the combined image of one Post and nothing
\* of the Post whose secondary file is missing.
C11_Witness ==
    /\ outcome.kind = "result"
    /\ settings.createCombinedImages
    /\ Len(filteredPosts) = 2
    /\ OrphanPrimary(filteredPosts[1].entry)
    /\ outcome.exportedCount = 1
    /\ \E w \in 1..Len(outcome.warnings) : outcome.warnings[w].kind = "fileMissing"

\* The Post lacks a reference, or the archive lacks a file it refers to.
AssetUnavailable(entry) == ~Attempted(entry)

\* The zone of the Post cannot be resolved under the accepted settings.
ZoneUnresolvable(post) ==
    \/ Unresolvable(post)
    \/ (LookupFails(post.entry.location) /\ fallbackTimezone = <<>>)

\* The Posts among the first n of the given kind of unavailable asset.
PathsMissingPosts(n) ==
    {i \in 1..n : filteredPosts[i].entry.primary = "null"
                     \/ filteredPosts[i].entry.secondary = "null"}

StageRank(stage) ==
    CASE stage = "scanning"   -> 1
      [] stage = "processing" -> 2
      [] stage = "combining"  -> 3
      [] stage = "packaging"  -> 4
      [] stage = "complete"   -> 5
      [] OTHER                -> 0

StagesSeen == {events[i].stage : i \in 1..Len(events)}

\* C13: the progress events of a run are ordered by stage: scanning, processing,
\* combining (only with createCombinedImages on), packaging, complete.  No event
\* of an earlier stage follows one of a later stage, and "complete" is emitted
\* once, as the last event, in the runs that return a result and in no other.
C13_StageOrder ==
    /\ \A i \in 1..Len(events) : StageRank(events[i].stage) > 0
    /\ \A i, j \in 1..Len(events) :
          i < j => StageRank(events[i].stage) <= StageRank(events[j].stage)
    /\ pc # "start" => (events # <<>> /\ events[1].stage = "scanning")
    /\ "combining" \in StagesSeen => settings.createCombinedImages
    /\ (settings.createCombinedImages /\ "packaging" \in StagesSeen)
          => "combining" \in StagesSeen
    /\ "combining" \in StagesSeen => "processing" \in StagesSeen
    /\ "packaging" \in StagesSeen => "processing" \in StagesSeen
    /\ "complete" \in StagesSeen => "packaging" \in StagesSeen
    /\ Cardinality({i \in 1..Len(events) : events[i].stage = "complete"}) <= 1
    /\ \A i \in 1..Len(events) :
          events[i].stage = "complete" => (i = Len(events) /\ outcome.kind = "result")
    /\ outcome.kind = "result" => events[Len(events)].stage = "complete"
    /\ outcome.kind = "error" => "complete" \notin StagesSeen

\* A run that combined two Posts went through all five stages.
C13_Witness ==
    /\ outcome.kind = "result"
    /\ StagesSeen = {"scanning", "processing", "combining", "packaging", "complete"}
    /\ \E i \in 1..Len(events) : events[i].stage = "combining" /\ events[i].current = 2
    /\ \E i \in 1..Len(events) : events[i].stage = "processing" /\ events[i].current = 2

\* The entries of the manifest that pass the date filter, in manifest order.
ManifestPosts == IF inputZip.manifest = "ok" THEN inputZip.posts ELSE <<>>

KeptEntry(entry) == [entry |-> entry, takenAt |-> entry.takenAt.ms]

RECURSIVE ExpectedPostsOf(_)
ExpectedPostsOf(entries) ==
    IF entries = <<>> THEN <<>>
    ELSE (IF InDateBounds(Head(entries)) THEN <<KeptEntry(Head(entries))>> ELSE <<>>)
         \o ExpectedPostsOf(Tail(entries))

ExpectedPosts == ExpectedPostsOf(ManifestPosts)

\* The zone the accepted settings give the Post, and the local timestamp in it.
ExpectedZone(post) ==
    IF HasUsableLocation(post.entry.location)
    THEN IF LookupFails(post.entry.location) THEN fallbackTimezone
         ELSE tzLookup(post.entry.location.latitude.value,
                       post.entry.location.longitude.value).timeZone
    ELSE IF MatchingSpans(post.takenAt) # {}
    THEN timezoneOverrides[HighestOf(MatchingSpans(post.takenAt))].timeZone
    ELSE fallbackTimezone

ExpectedStamp(post) == formatTimestampInTimeZone(post.takenAt, ExpectedZone(post))

\* The names, before numbering, of the single files of one Post: primary, then
\* secondary, each if the file can be decoded.
SinglesStamped(entry, stamp, format) ==
    IF ~Attempted(entry) THEN <<>>
    ELSE (IF Decodable(entry.primary)
          THEN <<stamp \o <<"_", "primary">> \o ExtensionOf(format)>> ELSE <<>>)
         \o (IF Decodable(entry.secondary)
             THEN <<stamp \o <<"_", "secondary">> \o ExtensionOf(format)>> ELSE <<>>)

PostSingles(post, format) ==
    IF ~Attempted(post.entry) THEN <<>>
    ELSE CHOOSE singles \in {SinglesStamped(post.entry, ExpectedStamp(post), format)} : TRUE

\* The warnings of one Post, in the order the loop body pushes them.
WarningsStamped(post, zone, stamp) ==
    (IF LookupFails(post.entry.location)
     THEN <<Warning("fallbackUsed", formatTimestampUtc(post.takenAt), "", fallbackTimezone, "")>>
     ELSE <<>>)
    \o (IF post.entry.primary = "null" \/ post.entry.secondary = "null"
        THEN <<Warning("pathsMissing", stamp, "", <<>>, "")>>
        ELSE IF ~Attempted(post.entry)
        THEN <<Warning("fileMissing", stamp, "", <<>>, "")>>
        ELSE (IF Undecodable(post.entry.primary)
              THEN <<Warning("roleFailed", stamp, "primary", zone,
                             "Could not decode an image from the export.")>> ELSE <<>>)
             \o (IF Undecodable(post.entry.secondary)
                 THEN <<Warning("roleFailed", stamp, "secondary", zone,
                                "Could not decode an image from the export.")>> ELSE <<>>))

PostWarnings(post) ==
    CHOOSE pushed \in {WarningsStamped(post, ExpectedZone(post), ExpectedStamp(post))} : TRUE

\* The single names and the warnings of the first n Posts, Post after Post.
RECURSIVE ExpectedSingles(_, _, _)
ExpectedSingles(posts, n, format) ==
    IF n = 0 THEN <<>>
    ELSE ExpectedSingles(posts, n - 1, format) \o PostSingles(posts[n], format)

RECURSIVE ExpectedLoopWarnings(_, _)
ExpectedLoopWarnings(posts, n) ==
    IF n = 0 THEN <<>> ELSE ExpectedLoopWarnings(posts, n - 1) \o PostWarnings(posts[n])

\* The Posts among the first n of which both files were exported, in order.
RECURSIVE ExpectedCandidates(_, _)
ExpectedCandidates(posts, n) ==
    IF n = 0 THEN <<>>
    ELSE ExpectedCandidates(posts, n - 1)
         \o (IF Attempted(posts[n].entry) /\ Decodable(posts[n].entry.primary)
                /\ Decodable(posts[n].entry.secondary)
             THEN <<posts[n]>> ELSE <<>>)

\* Of the first m candidates and the set F of those whose combined image could
\* not be encoded: the names, before numbering, of the combined images, and the
\* warnings, candidate after candidate.
RECURSIVE CombinedBases(_, _, _, _)
CombinedBases(candidates, m, F, format) ==
    IF m = 0 THEN <<>>
    ELSE CombinedBases(candidates, m - 1, F, format)
         \o (IF m \in F THEN <<>>
             ELSE <<ExpectedStamp(candidates[m]) \o <<"_", "combined">> \o ExtensionOf(format)>>)

RECURSIVE CombineWarnings(_, _, _)
CombineWarnings(candidates, m, F) ==
    IF m = 0 THEN <<>>
    ELSE CombineWarnings(candidates, m - 1, F)
         \o (IF m \in F
             THEN <<Warning("combineFailed", ExpectedStamp(candidates[m]), "",
                            ExpectedZone(candidates[m]), "Could not encode image output.")>>
             ELSE <<>>)

\* The names given one after the other to a list of wanted names: a name wanted
\* for the k-th time again carries the counter k.
NumberedNames(bases) ==
    [i \in 1..Len(bases) |->
        IF Cardinality({j \in 1..(i - 1) : bases[j] = bases[i]}) = 0 THEN bases[i]
        ELSE WithSuffix(bases[i], Cardinality({j \in 1..(i - 1) : bases[j] = bases[i]}))]

NameList(files) == [i \in 1..Len(files) |-> files[i].name]

IsPrefix(s, t) == Len(s) <= Len(t) /\ s = SubSeq(t, 1, Len(s))

NotIptcSummary(warning) == warning.kind # "iptcFailed"

\* The Posts the loop is done with, and those it is done with or working on.
PostsDone == IF pc \in AfterPostLoop THEN Len(filteredPosts) ELSE index
PostsBegun == IF pc \in {"role", "endpost"} THEN index + 1 ELSE PostsDone

\* The files and warnings of the combine loop are those of the first m
\* candidates, in candidate order, for some set of candidates that failed.
CombinedInOrder(candidates, m, loopWarnings) ==
    \E F \in SUBSET (1..m) :
       /\ NameList(combinedFiles)
             = NumberedNames(CombinedBases(candidates, m, F, settings.exportFormat))
       /\ SelectSeq(warnings, NotIptcSummary) = loopWarnings \o CombineWarnings(candidates, m, F)

\* The first place of a warning in the list of the run.
FirstAt(warning) == CHOOSE i \in 1..Len(warnings) :
                       warnings[i] = warning /\ \A j \in 1..(i - 1) : warnings[j] # warning

\* C14: the Posts are taken one at a time in the order the filtered manifest has
\* them.  The exported files are named Post after Post in that order, a Post's
\* primary before its secondary, the combined images candidate after candidate,
\* and the warnings are pushed in the same order; so the sequences of file names
\* and of warnings are functions of the archive and the settings (and of which
\* combined images the canvas could not encode).
C14_ManifestOrder ==
    /\ pc \notin {"start", "filter"} => filteredPosts = ExpectedPosts
    /\ ValidationPassed =>
          \E singlesDone \in {ExpectedSingles(filteredPosts, PostsDone, settings.exportFormat)},
             warningsDone \in {ExpectedLoopWarnings(filteredPosts, PostsDone)} :
          \E singlesBegun \in {IF PostsBegun = PostsDone THEN singlesDone
                               ELSE singlesDone \o PostSingles(filteredPosts[PostsBegun],
                                                               settings.exportFormat)},
             warningsBegun \in {IF PostsBegun = PostsDone THEN warningsDone
                                ELSE warningsDone \o PostWarnings(filteredPosts[PostsBegun])} :
             /\ IsPrefix(NameList(processedSingles), NumberedNames(singlesBegun))
             /\ IsPrefix(NumberedNames(singlesDone), NameList(processedSingles))
             /\ pc \notin AfterPostLoop =>
                   /\ IsPrefix(warnings, warningsBegun)
                   /\ IsPrefix(warningsDone, warnings)
                   /\ combinedFiles = <<>>
             /\ pc \in AfterPostLoop =>
                   \E candidates \in {ExpectedCandidates(filteredPosts, Len(filteredPosts))} :
                      CombinedInOrder(candidates,
                                      IF ~settings.createCombinedImages THEN 0
                                      ELSE IF pc = "combining" THEN index
                                      ELSE Len(candidates),
                                      warningsDone)
    /\ outcome.kind = "result" =>
          /\ NameList(outcome.shareFiles)
                = IF settings.createCombinedImages THEN NameList(combinedFiles)
                  ELSE NameList(processedSingles)
          /\ NameList(outcome.blob) = NameList(outcome.shareFiles)
          /\ \A a, b \in 1..Len(outcome.warnings) :
                a < b => /\ outcome.warnings[a] # outcome.warnings[b]
                         /\ FirstAt(outcome.warnings[a]) < FirstAt(outcome.warnings[b])
          /\ \A w \in 1..Len(warnings) :
                \E a \in 1..Len(outcome.warnings) : outcome.warnings[a] = warnings[w]

\* A run over two different Posts, the first with an undecodable secondary file,
\* exported three singles and the warning of the first Post.
C14_Witness ==
    /\ outcome.kind = "result"
    /\ Len(filteredPosts) = 2
    /\ filteredPosts[1].entry.secondary = "bad.webp"
    /\ filteredPosts[2].takenAt # filteredPosts[1].takenAt
    /\ Len(outcome.shareFiles) = 3
    /\ outcome.shareFiles[1].name # outcome.shareFiles[2].name
    /\ \E w \in 1..Len(outcome.warnings) : outcome.warnings[w].kind = "roleFailed"

\* The number of files of the first n Posts that can be exported as singles.
RECURSIVE ExportableSingles(_, _)
ExportableSingles(posts, n) ==
    IF n = 0 THEN 0
    ELSE ExportableSingles(posts, n - 1)
         + (IF ~Attempted(posts[n].entry) THEN 0
            ELSE (IF Decodable(posts[n].entry.primary) THEN 1 ELSE 0)
                 + (IF Decodable(posts[n].entry.secondary) THEN 1 ELSE 0))

\* The number of Posts among the first n of which both files can be exported.
RECURSIVE ExportablePairs(_, _)
ExportablePairs(posts, n) ==
    IF n = 0 THEN 0
    ELSE ExportablePairs(posts, n - 1)
         + (IF Attempted(posts[n].entry) /\ Decodable(posts[n].entry.primary)
               /\ Decodable(posts[n].entry.secondary) THEN 1 ELSE 0)

CombineFailures == Cardinality({w \in 1..Len(warnings) : warnings[w].kind = "combineFailed"})

\* C15: in a returned result exportedCount is the number of entries of the output
\* archive and the length of shareFiles.  It counts the files that were exported
\* and no others: not the files of a skipped Post, not a file that could not be
\* decoded or combined, and not the singles of a run that exports combined images.
C15_ExportedCount ==
    outcome.kind = "result" =>
       /\ outcome.exportedCount = Len(outcome.blob)
       /\ outcome.exportedCount = Cardinality({outcome.blob[i].name : i \in 1..Len(outcome.blob)})
       /\ outcome.exportedCount = Len(outcome.shareFiles)
       /\ \A i \in 1..Len(outcome.shareFiles) :
             \E j \in 1..Len(outcome.blob) : outcome.blob[j] = outcome.shareFiles[i]
       /\ outcome.exportedCount =
             IF settings.createCombinedImages
             THEN ExportablePairs(filteredPosts, Len(filteredPosts)) - CombineFailures
             ELSE ExportableSingles(filteredPosts, Len(filteredPosts))
       /\ \A i \in 1..Len(outcome.shareFiles) :
             outcome.shareFiles[i].blob.kind
                = IF settings.createCombinedImages THEN "combined" ELSE "single"

\* A run in combine mode over a Post with an undecodable file and a whole Post
\* made three singles and counted the one combined image.
C15_Witness ==
    /\ outcome.kind = "result"
    /\ settings.createCombinedImages
    /\ Len(processedSingles) = 3
    /\ outcome.exportedCount = 1
    /\ Len(outcome.blob) = 1

\* The caption is longer than an IPTC dataset can hold.
CaptionTooLong(caption) == caption.isString /\ caption.bytes > 65535

\* Of the first n Posts, the decodable files of those whose caption is too long.
RECURSIVE SinglesWithoutIptc(_, _)
SinglesWithoutIptc(posts, n) ==
    IF n = 0 THEN 0
    ELSE SinglesWithoutIptc(posts, n - 1)
         + (IF CaptionTooLong(posts[n].entry.caption)
            THEN ExportableSingles(posts, n) - ExportableSingles(posts, n - 1) ELSE 0)

ExifOnly(files) == {i \in 1..Len(files) : files[i].blob.metadata = "exif"}

IptcSummaries(list) == {w \in 1..Len(list) : list[w].kind = "iptcFailed"}

\* C16: a JPEG whose IPTC block cannot be built or spliced in is exported with
\* its EXIF metadata: the run does not fail at its Post and the file is in the
\* list of files.  The returned warnings hold the IPTC summary warning once if
\* that happened to some file of the run, however many, and not at all if it
\* happened to none or the format is png.
C16_IptcFlagged ==
    /\ ValidationPassed =>
          /\ \A i \in 1..Len(filteredPosts) :
                (CaptionTooLong(filteredPosts[i].entry.caption)
                    /\ ~ZoneUnresolvable(filteredPosts[i]))
                   => ~(pc = "failed" /\ index = i - 1)
          /\ pc \in {"processing"} \cup AfterPostLoop =>
                /\ Len(processedSingles) = ExportableSingles(filteredPosts, PostsDone)
                /\ Cardinality(ExifOnly(processedSingles))
                      = IF settings.exportFormat = "jpg"
                        THEN SinglesWithoutIptc(filteredPosts, PostsDone) ELSE 0
          /\ \A i \in 1..Len(AllFiles) :
                AllFiles[i].blob.metadata
                   \in IF settings.exportFormat = "jpg" THEN {"exif", "exif+iptc"} ELSE {"none"}
          /\ IptcSummaries(warnings) # {} => pc = "done"
    /\ outcome.kind = "result" =>
          /\ Cardinality(IptcSummaries(outcome.warnings))
                = IF settings.exportFormat = "jpg" /\ ExifOnly(AllFiles) # {} THEN 1 ELSE 0
          /\ Cardinality(IptcSummaries(outcome.warnings))
                = IF settings.exportFormat = "jpg"
                     /\ SinglesWithoutIptc(filteredPosts, Len(filteredPosts)) > 0
                  THEN 1 ELSE 0
          /\ \A i \in ExifOnly(AllFiles) :
                settings.createCombinedImages = (AllFiles[i].blob.kind = "combined")
                   => \E j \in 1..Len(outcome.blob) : outcome.blob[j] = AllFiles[i]

\* A run exported the four files of two Posts with captions too long for IPTC,
\* all with EXIF only, and returned the summary warning once.
C16_Witness ==
    /\ outcome.kind = "result"
    /\ settings.exportFormat = "jpg"
    /\ outcome.exportedCount = 4
    /\ \A i \in 1..Len(outcome.blob) : outcome.blob[i].blob.metadata = "exif"
    /\ Cardinality(IptcSummaries(outcome.warnings)) = 1

\* The conditions that end a run in an error.
FatalKinds ==
    {"noRoot", "noPostsObject", "badJson",
     "fallbackInvalid", "overrideMissingTimezone", "overrideInvalidTimezone",
     "overrideStartInvalid", "overrideEndInvalid", "overrideStartAfterEnd",
     "zoneNoLocation", "zoneLookup"}

\* The kinds of warnings of failures of one Post, one file or one image.
ItemWarningKinds == {"pathsMissing", "fileMissing", "roleFailed", "combineFailed", "iptcFailed"}

\* In every state the run has one outcome at most, of one of the two kinds: a
\* result, complete and with each warning once, or an error and nothing else.
OneOutcome ==
    /\ outcome.kind \in {"running", "result", "error"}
    /\ (pc = "done") = (outcome.kind = "result")
    /\ (pc = "failed") = (outcome.kind = "error")
    /\ outcome.kind = "error" =>
          /\ DOMAIN outcome = {"kind", "error"}
          /\ outcome.error.kind \in FatalKinds
          /\ outputZip = <<>>
          /\ "packaging" \notin StagesSeen
          /\ (ValidationPassed /\ index < Len(filteredPosts))
                => ZoneUnresolvable(filteredPosts[index + 1])
    /\ outcome.kind = "result" =>
          /\ "error" \notin DOMAIN outcome
          /\ PostsDone = Len(filteredPosts)
          /\ outcome.blob = outputZip
          /\ outcome.exportedCount = Len(outcome.blob)
          /\ \A a, b \in 1..Len(outcome.warnings) :
                a # b => outcome.warnings[a] # outcome.warnings[b]
          /\ {outcome.warnings[a] : a \in 1..Len(outcome.warnings)}
                = {warnings[w] : w \in 1..Len(warnings)}
    /\ (\E w \in 1..Len(warnings) : warnings[w].kind \in ItemWarningKinds)
          => (pc = "failed" => ZoneUnresolvable(filteredPosts[index + 1]))

\* Nothing stands in the way of a result: the archive has a manifest that parses,
\* the settings are valid and every filtered Post can be given a zone.
NothingFatal ==
    /\ inputZip.manifest \in {"ok", "notArray"}
    /\ settings.fallbackTimezone \in {<<>>} \cup {<<z>> : z \in ValidTimeZones}
    /\ \A k \in 1..Len(settings.timezoneOverrides) :
          ~SpanInvalid(settings.timezoneOverrides[k])
    /\ \A i \in 1..Len(ManifestPosts) :
          \/ HasUsableLocation(ManifestPosts[i].location)
                /\ (LookupFails(ManifestPosts[i].location) => settings.fallbackTimezone # <<>>)
          \/ ~HasUsableLocation(ManifestPosts[i].location)
                /\ \/ settings.fallbackTimezone # <<>>
                   \/ \E k \in 1..Len(settings.timezoneOverrides) :
                         SpanMatches(settings.timezoneOverrides[k], ManifestPosts[i].takenAt.ms)

\* C17: every run comes to an end, in a result or in an error and never in both:
\* once the outcome is there no further step is taken.  A result is complete and
\* carries each warning once; an error comes with no output.  A run in which
\* nothing is fatal ends in a result whatever fails for single Posts, files or
\* images, and a run in which something is fatal ends in an error.
C17_Terminates ==
    /\ <>(pc \in {"done", "failed"})
    /\ []OneOutcome
    /\ [][outcome = Running]_vars
    /\ (NothingFatal => <>(pc = "done"))
    /\ (~NothingFatal => <>(pc = "failed"))

\* A run ended in a result in which a warning pushed twice is returned once.
C17_Witness ==
    /\ pc = "done"
    /\ outcome.kind = "result"
    /\ outcome.exportedCount > 0
    /\ Len(outcome.warnings) < Len(warnings)
    /\ \E w \in 1..Len(outcome.warnings) : outcome.warnings[w].kind = "roleFailed"

\* The names between the separators of an entry's name, in lower case, a leading
\* "." left out.
RECURSIVE Segments(_)
Segments(name) ==
    IF name = <<>> THEN <<>>
    ELSE (IF Head(name) \in {"/", "\\", "."} THEN <<>> ELSE <<Lower(Head(name))>>)
         \o Segments(Tail(name))

\* The entry is a manifest: a file named posts.json.  Its folder.
IsManifestFile(object) ==
    /\ ~object.dir
    /\ Segments(object.name) # <<>>
    /\ Segments(object.name)[Len(Segments(object.name))] = "posts.json"

FolderOf(object) == SubSeq(Segments(object.name), 1, Len(Segments(object.name)) - 1)

\* The listing has a Photos directory in the folder: an entry below it, or the
\* directory's own entry.
HasPhotosBeside(folder, files) ==
    \E i \in 1..Len(files) :
       /\ startsWith(Segments(files[i].name), folder \o <<"photos">>)
       /\ (Len(Segments(files[i].name)) > Len(folder) + 1 \/ files[i].dir)

\* The length of a path in characters, a separator between two segments.
RECURSIVE PathLength(_)
PathLength(segments) ==
    IF segments = <<>> THEN 0
    ELSE TokenLength(Head(segments)) + (IF Len(segments) > 1 THEN 1 ELSE 0)
         + PathLength(Tail(segments))

QualifyingManifests(files) ==
    {i \in 1..Len(files) :
        IsManifestFile(files[i]) /\ HasPhotosBeside(FolderOf(files[i]), files)}

ShortestQualifying(files) ==
    {i \in QualifyingManifests(files) :
        \A j \in QualifyingManifests(files) :
           PathLength(Segments(files[i].name)) <= PathLength(Segments(files[j].name))}

\* C18: when some manifest of the listing has a Photos directory beside it,
\* findExportRootPrefix returns the folder of the shortest such manifest, in
\* whatever order the archive lists its entries.
C18_ShortestManifest ==
    (lookup.pc # "idle" /\ QualifyingManifests(zipFiles) # {}) =>
       /\ ~lookup.rootPrefix.isNull
       /\ \E i \in ShortestQualifying(zipFiles) :
             Segments(lookup.rootPrefix.prefix) = FolderOf(zipFiles[i])

\* What the lookup does in that case: it returns the folder of the qualifying
\* manifest that comes first in the listing.
C18_FirstListedManifest ==
    (lookup.pc # "idle" /\ QualifyingManifests(zipFiles) # {}) =>
       /\ ~lookup.rootPrefix.isNull
       /\ \E i \in QualifyingManifests(zipFiles) :
             /\ \A j \in QualifyingManifests(zipFiles) : i <= j
             /\ Segments(lookup.rootPrefix.prefix) = FolderOf(zipFiles[i])

\* Two manifests have a Photos directory beside them, and the lookup returned the
\* folder of the longer one.
C18_Witness ==
    /\ lookup.pc = "rooted"
    /\ Cardinality(QualifyingManifests(zipFiles)) = 2
    /\ ~lookup.rootPrefix.isNull
    /\ \A i \in ShortestQualifying(zipFiles) :
          PathLength(Segments(lookup.rootPrefix.prefix)) > PathLength(FolderOf(zipFiles[i]))


\* The listing has no manifest file; it has no Photos directory at any depth.
NoManifest(files) == \A i \in 1..Len(files) : ~IsManifestFile(files[i])

NoImageRoot(files) ==
    \A i \in 1..Len(files) :
       \A k \in 1..Len(Segments(files[i].name)) :
          Segments(files[i].name)[k] = "photos" =>
             (k = Len(Segments(files[i].name)) /\ ~files[i].dir)

\* The run has stopped with the error of the missing root, after the scanning
\* event and with nothing else touched.
FailedBeforeAnyPost ==
    /\ pc = "failed"
    /\ outcome = Failed([kind |-> "noRoot", row |-> 0])
    /\ events = <<ProgressEvent("scanning", 0, 0, 0, 1)>>
    /\ filteredPosts = <<>>
    /\ index = 0
    /\ cur = NoCur
    /\ decoded = <<>>
    /\ processedSingles = <<>>
    /\ warnings = <<>>
    /\ outputZip = <<>>

C19_BoundsWitness ==
    /\ NoManifest(zipFiles)
    /\ ~NoImageRoot(zipFiles)
    /\ pc = "boundsDone"
    /\ dateBounds = NullBounds
    /\ outcome = Running


\* The files of the listing whose path is the given one, compared in lower case
\* and with the separators normalised.
FilesAt(files, path) ==
    {i \in 1..Len(files) : ~files[i].dir /\ Segments(files[i].name) = path}

\* The three preferred places of a filename under a root, in their order.
PreferredPlaces(root, filename) ==
    <<Segments(root) \o <<"photos", "post">> \o Segments(filename),
      Segments(root) \o <<"photos", "bereal">> \o Segments(filename),
      Segments(root) \o <<"photos">> \o Segments(filename)>>

\* The files of the listing with the basename of the filename.
SameBasename(files, filename) ==
    {i \in 1..Len(files) :
        /\ ~files[i].dir
        /\ Segments(files[i].name) # <<>>
        /\ <<Segments(files[i].name)[Len(Segments(files[i].name))]>> = Segments(filename)}

\* The file lies in a folder photos/<role>, at whatever depth.
InRoleFolder(object, role) ==
    \E k \in 1..(Len(FolderOf(object)) - 1) :
       FolderOf(object)[k] = "photos" /\ FolderOf(object)[k + 1] = role

RoleMatches(files, filename, role) ==
    {i \in SameBasename(files, filename) : InRoleFolder(files[i], role)}

\* The entries the lookup may return for a filename: the files at the first
\* preferred place that has one, else the same-named files in a Photos/post
\* folder, else those in a Photos/bereal folder, else the first same-named file,
\* else none.
Acceptable(files, root, filename) ==
    IF \E k \in 1..3 : FilesAt(files, PreferredPlaces(root, filename)[k]) # {}
    THEN {files[i] : i \in FilesAt(files, PreferredPlaces(root, filename)[
              CHOOSE k \in 1..3 :
                 /\ FilesAt(files, PreferredPlaces(root, filename)[k]) # {}
                 /\ \A j \in 1..(k - 1) : FilesAt(files, PreferredPlaces(root, filename)[j]) = {}])}
    ELSE IF RoleMatches(files, filename, "post") # {}
    THEN {files[i] : i \in RoleMatches(files, filename, "post")}
    ELSE IF RoleMatches(files, filename, "bereal") # {}
    THEN {files[i] : i \in RoleMatches(files, filename, "bereal")}
    ELSE IF SameBasename(files, filename) # {}
    THEN {files[CHOOSE i \in SameBasename(files, filename) :
                   \A j \in SameBasename(files, filename) : i <= j]}
    ELSE {NoObject}

\* C20: findImageObject returns the first hit among <root>Photos/post/<name>,
\* <root>Photos/bereal/<name> and <root>Photos/<name>, compared without regard
\* to case; without a hit, a same-named entry in a Photos/post folder wherever
\* that folder sits (the archive root included), else one in a Photos/bereal
\* folder, else the first same-named entry, and null only when no entry has
\* the basename.
C20_PreferenceOrder ==
    lookup.pc = "found" =>
       lookup.imageObject \in Acceptable(zipFiles, lookup.rootPrefix.prefix, lookup.filename)

\* The same-named file in a Photos/post folder lies below some other folder.
BelowAFolder(object, role) ==
    \E k \in 2..(Len(FolderOf(object)) - 1) :
       FolderOf(object)[k] = "photos" /\ FolderOf(object)[k + 1] = role

\* What the lookup does when no preferred place hits and a same-named file lies
\* in Photos/post at the root of the archive only: that file is passed over.
C20_Witness ==
    /\ lookup.pc = "found"
    /\ \A k \in 1..3 :
          FilesAt(zipFiles, PreferredPlaces(lookup.rootPrefix.prefix, lookup.filename)[k]) = {}
    /\ RoleMatches(zipFiles, lookup.filename, "post") # {}
    /\ \A i \in RoleMatches(zipFiles, lookup.filename, "post") : ~BelowAFolder(zipFiles[i], "post")
    /\ lookup.imageObject # NoObject
    /\ ~InRoleFolder(lookup.imageObject, "post")


\* The Posts, among the first n, of which both roles were processed: both images
\* are referenced, held by the archive and decodable.
RECURSIVE BothRolesProcessed(_, _)
BothRolesProcessed(posts, n) ==
    IF n = 0 THEN <<>>
    ELSE BothRolesProcessed(posts, n - 1)
         \o (IF Attempted(posts[n].entry) /\ Decodable(posts[n].entry.primary)
                /\ Decodable(posts[n].entry.secondary)
             THEN <<n>> ELSE <<>>)

\* The file is one of the singles the run produced.
IsProducedSingle(file) ==
    /\ file.blob.kind = "single"
    /\ \E s \in 1..Len(processedSingles) : processedSingles[s] = file

\* Candidate c stands for Post n: its instant and its two singles, made from the
\* Post's two images.
CandidateOfPost(candidate, post) ==
    /\ candidate.takenAt = post.takenAt
    /\ candidate.primary.blob.sources = <<post.entry.primary>>
    /\ candidate.secondary.blob.sources = <<post.entry.secondary>>
    /\ IsProducedSingle(candidate.primary)
    /\ IsProducedSingle(candidate.secondary)

\* The combined image was made from the two singles of one of the candidates.
CombinedFromCandidate(file) ==
    \E c \in 1..Len(combineCandidates) :
       file.blob.sources \in
          {combineCandidates[c].primary.blob.sources \o combineCandidates[c].secondary.blob.sources,
           combineCandidates[c].secondary.blob.sources \o combineCandidates[c].primary.blob.sources}

\* C21: the combine candidates are, in order, the Posts of which both the primary
\* and the secondary role were processed; every combined image is made from the
\* two singles of such a Post, and a Post with a failed role gives none.
C21_CandidateIffBothRoles ==
    \E both \in {BothRolesProcessed(filteredPosts, PostsDone)} :
       /\ Len(combineCandidates) = Len(both)
       /\ \A c \in 1..Len(both) : CandidateOfPost(combineCandidates[c], filteredPosts[both[c]])
       /\ Len(combinedFiles) <= Len(combineCandidates)
       /\ \A f \in 1..Len(combinedFiles) :
             /\ CombinedFromCandidate(combinedFiles[f])
             /\ \A s \in 1..Len(combinedFiles[f].blob.sources) :
                   Decodable(combinedFiles[f].blob.sources[s])

\* A run over two Posts, the first with a secondary image that does not decode:
\* its primary single was produced, and the one candidate and the one combined
\* image are those of the second Post.
C21_Witness ==
    /\ pc = "packaging"
    /\ Len(filteredPosts) = 2
    /\ Attempted(filteredPosts[1].entry)
    /\ Undecodable(filteredPosts[1].entry.secondary)
    /\ \E s \in 1..Len(processedSingles) :
          processedSingles[s].blob.sources = <<filteredPosts[1].entry.primary>>
    /\ Len(combineCandidates) = 1
    /\ Len(combinedFiles) = 1
    /\ CandidateOfPost(combineCandidates[1], filteredPosts[2])


\* The Post the loop is at, once its zone is resolved.
PostAtIndex == filteredPosts[index + 1]

\* C22: for a Post without location, a span matches iff the calendar date of the
\* instant in the span's own zone lies within the span's dates, both included and
\* a missing date open; the Post gets the zone of a matching span, and the
\* fallback zone only when no span matches.
C22_SpanWindow ==
    (pc \in {"role", "endpost"} /\ ~HasUsableLocation(PostAtIndex.entry.location)) =>
       IF MatchingSpans(PostAtIndex.takenAt) # {}
       THEN \E k \in MatchingSpans(PostAtIndex.takenAt) :
               cur.timeZone = timezoneOverrides[k].timeZone
       ELSE fallbackTimezone # <<>> /\ cur.timeZone = fallbackTimezone

\* The span's dates hold the instant's date in UTC, not its date in the span's zone.
OnlyByUtcDate(span, ms) ==
    /\ ~SpanMatches(span, ms)
    /\ SpanMatches([span EXCEPT !.timeZone = <<"UTC">>], ms)

\* The first Post was left to the fallback zone although its UTC date lies in
\* the window of the one span; the second Post, taken within the window by
\* the span's own zone, is given the span's zone.
C22_Witness ==
    /\ pc = "role"
    /\ index = 1
    /\ fallbackTimezone = <<"UTC">>
    /\ Len(timezoneOverrides) = 1
    /\ OnlyByUtcDate(timezoneOverrides[1], filteredPosts[1].takenAt)
    /\ Len(processedSingles) = 2
    /\ MatchingSpans(PostAtIndex.takenAt) = {1}
    /\ cur.timeZone = <<"America/New_York">>


\* The stream begins with the Start-of-Image marker 0xFF 0xD8.
HasSoi(data) == Len(data) >= 2 /\ data[1] = 255 /\ data[2] = 216

\* What stands at position p (counted from 0) of a stream when a marker is due
\* there: the end of the stream, a byte that is not 0xFF, a fill byte, an SOS or
\* EOI marker, a marker without length, or a segment that is cut short, states
\* a length below 2, runs past the end of the stream, or is whole.
LengthlessMarkers == {1} \cup (208..215)

StatedLength(data, p) == data[p + 3] * 256 + data[p + 4]

ElementAt(data, p) ==
    IF p + 1 >= Len(data) THEN "end"
    ELSE IF data[p + 1] # 255 THEN "noMarker"
    ELSE IF data[p + 2] = 255 THEN "fill"
    ELSE IF data[p + 2] \in {218, 217} THEN "insertionPoint"
    ELSE IF data[p + 2] \in LengthlessMarkers THEN "lengthless"
    ELSE IF p + 3 >= Len(data) THEN "truncated"
    ELSE IF StatedLength(data, p) < 2 THEN "lengthBelow2"
    ELSE IF p + 2 + StatedLength(data, p) > Len(data) THEN "overrun"
    ELSE "segment"

\* The size of the element at p, for the elements the chain walks past.
ElementSize(data, p) ==
    CASE ElementAt(data, p) = "fill" -> 1
      [] ElementAt(data, p) = "lengthless" -> 2
      [] ElementAt(data, p) = "segment" -> 2 + StatedLength(data, p)

\* The marker chain from position p: the positions at which a marker is due, up
\* to the first one the chain cannot walk past.
RECURSIVE ChainFrom(_, _)
ChainFrom(data, p) ==
    IF ElementAt(data, p) \in {"fill", "lengthless", "segment"}
    THEN <<p>> \o ChainFrom(data, p + ElementSize(data, p))
    ELSE <<p>>

ChainEnd(chain) == chain[Len(chain)]

\* Position o lies inside an element of the chain: behind its first byte and
\* before the next position of the chain.
InsideElement(chain, o) ==
    \E c \in 1..(Len(chain) - 1) : chain[c] < o /\ o < chain[c + 1]

\* The offset is that of the first SOS or EOI marker of the chain.
FirstInsertionPoint(data, chain, o) ==
    /\ HasSoi(data)
    /\ ElementAt(data, ChainEnd(chain)) = "insertionPoint"
    /\ o = ChainEnd(chain)
    /\ ~InsideElement(chain, o)

\* The stream lacks SOI, or its chain ends in a byte that is no marker, in a
\* segment with a length below 2, in a truncated or overrunning segment, or at
\* the end of the stream without SOS or EOI.
Defective(data, chain) ==
    \/ ~HasSoi(data)
    \/ ElementAt(data, ChainEnd(chain))
          \in {"noMarker", "lengthBelow2", "truncated", "overrun", "end"}

\* What the call returned is the first insertion point of the chain.
C23_Returned ==
    jpeg.pc \in {"located", "merged"} =>
       \E chain \in {ChainFrom(jpeg.jpegData, 2)} :
          FirstInsertionPoint(jpeg.jpegData, chain, jpeg.offset)

\* Once the walk is over, the call has thrown iff the stream is defective.
C23_Thrown ==
    (jpeg.pc \in {"located", "merged"} \/ (jpeg.pc = "threw" /\ jpeg.error # "segmentTooLarge")) =>
       (jpeg.pc = "threw" <=> Defective(jpeg.jpegData, ChainFrom(jpeg.jpegData, 2)))

\* Every pass of the loop that is followed by another moves the offset forward,
\* within the stream.
C23_Advance ==
    (jpeg.pc = "walking" /\ jpeg'.pc = "walking") =>
       (jpeg'.offset > jpeg.offset /\ jpeg'.offset <= Len(jpeg.jpegData))

\* C23: on every byte sequence findJpegMetadataInsertOffset terminates; what it
\* returns is the offset of the first SOS or EOI marker of the marker chain
\* from byte 2 (fill bytes skipped, 0x01 and 0xD0-0xD7 without length, every
\* other segment skipped by its big-endian length), never an offset inside a
\* segment; it throws for every stream that lacks SOI or whose chain ends in a
\* byte that is no marker, a length below 2, a truncated or overrunning segment,
\* or the end of the stream.
C23_InsertOffset == [](C23_Returned /\ C23_Thrown) /\ [][C23_Advance]_vars

\* Behind SOI: an APP0 segment whose data read as an SOS marker, and a fill
\* byte before the EOI marker, which was found at offset 9.
C23_Witness ==
    /\ jpeg.pc = "located"
    /\ jpeg.jpegData = <<255, 216, 255, 224, 0, 4, 255, 218, 255, 255, 217>>
    /\ jpeg.offset = 9
    /\ ChainFrom(jpeg.jpegData, 2) = <<2, 8, 9>>

\* A stream whose chain ends in a segment that runs past the end of the stream,
\* behind a whole segment, was refused.
C23_ThrownWitness ==
    /\ jpeg.pc = "threw"
    /\ jpeg.jpegData = <<255, 216, 255, 224, 0, 2, 255, 224, 0, 9, 255, 218>>
    /\ jpeg.error = "segmentExceedsFile"


\* The output is the input with the segment put in at offset o: the bytes
\* before o stay where they are, the segment follows, and the bytes from o on
\* follow the segment.
InsertedAt(output, input, segment, o) ==
    /\ Len(output) = Len(input) + Len(segment)
    /\ \A i \in 1..o : output[i] = input[i]
    /\ \A i \in 1..Len(segment) : output[o + i] = segment[i]
    /\ \A i \in (o + 1)..Len(input) : output[Len(segment) + i] = input[i]

\* The output without the bytes o .. o + length - 1.
Removed(output, o, length) ==
    [i \in 1..(Len(output) - length) |-> IF i <= o THEN output[i] ELSE output[i + length]]

\* C24: addIptcToJpeg only inserts bytes: its output is the input up to the
\* insertion offset, the APP13 segment, and the input from the offset on, so
\* that taking the segment out gives the input back; a call that throws has
\* produced no stream.
C24_OnlyInserts ==
    /\ jpeg.pc = "merged" =>
          /\ jpeg.app13Segment # <<>>
          /\ InsertedAt(jpeg.merged, jpeg.jpegData, jpeg.app13Segment, jpeg.offset)
          /\ Removed(jpeg.merged, jpeg.offset, Len(jpeg.app13Segment)) = jpeg.jpegData
    /\ jpeg.pc # "merged" => jpeg.merged = <<>>

\* A segment was put in behind a whole segment of the stream and in front of a
\* fill byte and the marker that follows it.
C24_Witness ==
    /\ jpeg.pc = "merged"
    /\ jpeg.jpegData = <<255, 216, 255, 224, 0, 2, 255, 255, 218>>
    /\ jpeg.offset = 7
    /\ jpeg.merged[8] = 255 /\ jpeg.merged[9] = 237
    /\ Len(jpeg.merged) = Len(jpeg.jpegData) + 4 + 26 + Len(PlainIptcPayload) + 1

\* A call on a stream without insertion point has thrown and produced nothing.
C24_ThrownWitness ==
    /\ jpeg.pc = "threw"
    /\ jpeg.error = "noInsertionPoint"
    /\ jpeg.app13Segment # <<>>
    /\ jpeg.merged = <<>>


\* The size of the APP13 segment of a payload of n bytes: marker, length field,
\* "Photoshop 3.0" and its terminator, "8BIM", resource id, resource name,
\* resource size, payload, and a pad byte behind a payload of odd length.
PadBytes(n) == IF n % 2 = 1 THEN 1 ELSE 0
SegmentSize(n) == 2 + 2 + 14 + 4 + 2 + 2 + 4 + n + PadBytes(n)

BigEndian(bytes) ==
    IF Len(bytes) = 2 THEN bytes[1] * 256 + bytes[2]
    ELSE ((bytes[1] * 256 + bytes[2]) * 256 + bytes[3]) * 256 + bytes[4]

\* The segment is well formed for the payload.
WellFormedSegment(segment, payload) ==
    /\ Len(segment) = SegmentSize(Len(payload))
    /\ segment[1] = 255 /\ segment[2] = 237
    /\ BigEndian(SubSeq(segment, 3, 4)) = Len(segment) - 2
    /\ Len(segment) - 2 <= 65535
    /\ BigEndian(SubSeq(segment, 27, 30)) = Len(payload)
    /\ SubSeq(segment, 31, 30 + Len(payload)) = payload
    /\ Len(segment) - (30 + Len(payload)) = PadBytes(Len(payload))
    /\ \A i \in (31 + Len(payload))..Len(segment) : segment[i] = 0

\* C25: for every payload buildIptcApp13Segment fails, because the segment
\* length would exceed 65535, or returns a segment that begins 0xFF 0xED, whose
\* length field is the size of the segment less the two marker bytes, whose
\* 4-byte resource size is the payload length, and which ends in one pad byte
\* iff the payload length is odd; the length field never wraps.
C25_SegmentLength ==
    jpeg.pc \notin {"idle", "called"} =>
       IF SegmentSize(Len(jpeg.iptcPayload)) - 2 > 65535
       THEN jpeg.pc = "threw" /\ jpeg.error = "segmentTooLarge" /\ jpeg.app13Segment = <<>>
       ELSE /\ ~(jpeg.pc = "threw" /\ jpeg.error = "segmentTooLarge")
            /\ WellFormedSegment(jpeg.app13Segment, jpeg.iptcPayload)

\* The segment of the largest payload that fits, 65506 bytes, was built: its
\* length field reads 65534.
C25_Witness ==
    /\ jpeg.pc = "built"
    /\ Len(jpeg.iptcPayload) = 65506
    /\ jpeg.app13Segment[3] = 255 /\ jpeg.app13Segment[4] = 254
    /\ Len(jpeg.app13Segment) = 65536

\* The payload of 65507 bytes, one more than fits, was refused; the payload of
\* 65505 bytes was padded.
C25_RefusedWitness ==
    /\ jpeg.pc = "threw"
    /\ Len(jpeg.iptcPayload) = 65507
    /\ jpeg.error = "segmentTooLarge"

C25_PaddedWitness ==
    /\ jpeg.pc = "built"
    /\ Len(jpeg.iptcPayload) = 65505
    /\ Len(jpeg.app13Segment) = 65536
    /\ jpeg.app13Segment[65536] = 0


\* The minutes east of UTC that an offset string states: a sign, two digits of
\* hours and two digits of minutes below 60, with the separator in between or
\* with none.
StatedMinutes(sign, hours, minutes) ==
    (IF sign = "-" THEN -1 ELSE 1) * (parseInt(hours) * 60 + parseInt(minutes))

StatesOffset(text, separator, offsetMinutes) ==
    /\ Len(text) = 5 + Len(separator)
    /\ text[1] \in {"+", "-"}
    /\ \A i \in {2, 3, Len(text) - 1, Len(text)} : IsDigit(text[i])
    /\ SubSeq(text, 4, 3 + Len(separator)) = separator
    /\ parseInt(SubSeq(text, Len(text) - 1, Len(text))) < 60
    /\ StatedMinutes(text[1], SubSeq(text, 2, 3), SubSeq(text, Len(text) - 1, Len(text)))
          = offsetMinutes
    /\ text[1] = "-" <=> offsetMinutes < 0

\* The call reports the offset of its zone at its instant, and writes it.
ReportsZoneOffset(call) ==
    /\ call.resolved.offsetMinutes * 60000 = ZoneOffsetMs(call.timeZone[1], call.takenAt)
    /\ StatesOffset(call.exifOffset, <<":">>, call.resolved.offsetMinutes)
    /\ Len(call.iptcTime) = 11
    /\ StatesOffset(SubSeq(call.iptcTime, 7, 11), <<>>, call.resolved.offsetMinutes)

\* C26: the offsetMinutes of resolveDateTimeInTimeZone is the offset of the zone
\* in effect at the instant, for every instant and zone; two instants one second
\* apart on the two sides of a transition report offsets that differ by the
\* transition's delta; and the EXIF and IPTC offset strings state that offset
\* with its sign, hours and minutes.
C26_ZoneOffset ==
    /\ \A c \in 1..Len(exif.calls) : ReportsZoneOffset(exif.calls[c])
    /\ Len(exif.calls) = 2 =>
          (exif.calls[2].resolved.offsetMinutes - exif.calls[1].resolved.offsetMinutes) * 60000
             = ZoneOffsetMs(exif.calls[2].timeZone[1], exif.calls[2].takenAt)
               - ZoneOffsetMs(exif.calls[1].timeZone[1], exif.calls[1].takenAt)

\* Half a second before Australia/Lord_Howe leaves summer time, and half a
\* second after: +11:00 and +10:30.
C26_Witness ==
    /\ Len(exif.calls) = 2
    /\ exif.calls[1].timeZone = <<"Australia/Lord_Howe">>
    /\ exif.calls[1].takenAt = LordHoweDstEnd - 500
    /\ exif.calls[1].exifOffset = <<"+", "1", "1", ":", "0", "0">>
    /\ exif.calls[2].exifOffset = <<"+", "1", "0", ":", "3", "0">>
    /\ exif.calls[2].resolved.offsetMinutes - exif.calls[1].resolved.offsetMinutes = -30

\* A millisecond before Europe/Berlin enters summer time, and a second later;
\* an instant in America/St_Johns.
C26_BerlinWitness ==
    /\ Len(exif.calls) = 2
    /\ exif.calls[1].timeZone = <<"Europe/Berlin">>
    /\ exif.calls[1].takenAt = BerlinDstStart - 1
    /\ exif.calls[1].resolved.offsetMinutes = 60
    /\ exif.calls[2].resolved.offsetMinutes = 120

C26_NegativeWitness ==
    /\ Len(exif.calls) = 1
    /\ exif.calls[1].timeZone = <<"America/St_Johns">>
    /\ exif.calls[1].exifOffset = <<"-", "0", "2", ":", "3", "0">>
    /\ SubSeq(exif.calls[1].iptcTime, 7, 11) = <<"-", "0", "2", "3", "0">>


(***************************************************************************)
(* The GPS tags                                                            *)
(***************************************************************************)
\* What a reader of the tags takes the coordinate to be, in hundredths of a
\* second of arc: degrees, minutes and hundredths of seconds added up.
ParsedHundredths(triple) == triple[1] * 360000 + triple[2] * 6000 + triple[3]

\* A degrees/minutes/seconds triple of the absolute value of a coordinate given
\* in millionths of a degree: whole degrees, minutes in 0..59, hundredths of
\* seconds in 0..5999, and together the coordinate to half a hundredth of a
\* second (a hundredth of a second is 25/9 millionths of a degree).
WellFormedTriple(triple, magnitude) ==
    /\ triple[1] = magnitude \div DegreeScale
    /\ triple[2] \in 0..59
    /\ triple[3] \in 0..5999
    /\ 2 * Abs(ParsedHundredths(triple) * 25 - magnitude * 9) <= 25

\* C27: for every latitude and longitude the embedded GPS value is a
\* well-formed triple of degrees = floor(|v|), minutes in 0..59 and hundredths
\* of seconds in 0..5999 that add up to |v| to the rounding of the seconds, and
\* the hemisphere letter is N or E for v >= 0 and S or W for v < 0.
C27_WellFormedDms ==
    \A i \in 1..Len(exif.gps) :
        /\ WellFormedTriple(exif.gps[i].GPSLatitude, Abs(exif.gps[i].latitude))
        /\ WellFormedTriple(exif.gps[i].GPSLongitude, Abs(exif.gps[i].longitude))
        /\ exif.gps[i].GPSLatitudeRef = (IF exif.gps[i].latitude >= 0 THEN "N" ELSE "S")
        /\ exif.gps[i].GPSLongitudeRef = (IF exif.gps[i].longitude >= 0 THEN "E" ELSE "W")

\* Everything of C27 but the range of the seconds: the tags add up to the
\* coordinate, whole degrees and minutes in 0..59 included.
C27_AddsUp ==
    \A i \in 1..Len(exif.gps) :
        /\ 2 * Abs(ParsedHundredths(exif.gps[i].GPSLatitude) * 25
                   - Abs(exif.gps[i].latitude) * 9) <= 25
        /\ 2 * Abs(ParsedHundredths(exif.gps[i].GPSLongitude) * 25
                   - Abs(exif.gps[i].longitude) * 9) <= 25
        /\ exif.gps[i].GPSLatitude[2] \in 0..59
        /\ exif.gps[i].GPSLongitude[2] \in 0..59

\* Berlin: 52 degrees 31 minutes 12.00 seconds north, 13 degrees 24 minutes
\* 18.00 seconds east.
C27_Witness ==
    /\ Len(exif.gps) = 1
    /\ exif.gps[1].latitude = 52520000
    /\ exif.gps[1].GPSLatitude = <<52, 31, 1200>>
    /\ exif.gps[1].GPSLatitudeRef = "N"
    /\ exif.gps[1].longitude = 13405000
    /\ exif.gps[1].GPSLongitude = <<13, 24, 1800>>

\* 10.999999 degrees south: 10 degrees 59 minutes and 6000 hundredths of a
\* second.
C27_SixtySeconds ==
    /\ Len(exif.gps) = 1
    /\ exif.gps[1].latitude = -10999999
    /\ exif.gps[1].GPSLatitude = <<10, 59, 6000>>
    /\ exif.gps[1].GPSLatitudeRef = "S"


(***************************************************************************)
(* Override spans and located Posts                                        *)
(***************************************************************************)
\* The zones of the override spans of the run.
SpanZones == {timezoneOverrides[i].timeZone : i \in 1..Len(timezoneOverrides)}

\* What the coordinate lookup gives for the Post about to be processed: its
\* zone, or nothing when it throws or names a zone the runtime does not know.
LookupZoneOf(location) ==
    LET looked == tzLookup(location.latitude.value, location.longitude.value)
    IN  IF looked.threw \/ ~validateTimeZone(looked.timeZone) THEN <<>> ELSE looked.timeZone

\* The step that begins the next Post.
BeginsPost == pc = "processing" /\ index < Len(filteredPosts)

\* A Post with two finite coordinates gets the lookup's zone, or the fallback
\* zone when the lookup fails, and the run fails when there is no fallback: no
\* span is asked.
C28_Located ==
    (BeginsPost /\ HasUsableLocation(PostAtIndex.entry.location)) =>
        \E zone \in {LookupZoneOf(PostAtIndex.entry.location)} :
            /\ pc' = "role" =>
                  /\ cur'.timeZone = (IF zone # <<>> THEN zone ELSE fallbackTimezone)
                  /\ cur'.timeZone \notin SpanZones
            /\ pc' = "failed" =>
                  /\ zone = <<>>
                  /\ fallbackTimezone = <<>>
                  /\ outcome'.error.kind = "zoneLookup"
            /\ pc' \in {"role", "failed"}

\* A Post whose location lacks a finite coordinate gets what the same Post
\* without location gets.
C28_Unusable ==
    (BeginsPost /\ ~HasUsableLocation(PostAtIndex.entry.location)) =>
        \E absent \in {resolvePostTimezone(PostAtIndex.takenAt, normalizeLocation(NoLocation),
                                           timezoneOverrides, fallbackTimezone)} :
            /\ pc' = "role" => (~cur'.location.defined /\ absent.ok /\ cur'.timeZone = absent.value)
            /\ pc' = "failed" => (~absent.ok /\ outcome'.error.kind = "zoneNoLocation")
            /\ pc' \in {"role", "failed"}

\* C28: override spans are consulted only for Posts without a usable location.
\* A Post whose latitude and longitude are both finite numbers gets the zone of
\* the coordinate lookup or the fallback zone, never the zone of an override
\* span, even when the lookup fails and a span covers the instant; a location
\* with a missing or non-finite coordinate is treated as absent.
C28_SpansOnlyWithoutLocation == [][C28_Located /\ C28_Unusable]_vars

\* A Post at latitude 95, where the lookup throws, under a span that covers its
\* instant: it has the fallback zone.
C28_Witness ==
    /\ pc = "role"
    /\ cur.location.defined
    /\ cur.location.latitude = 95
    /\ findTimezoneFromOverrides(cur.takenAt, timezoneOverrides) # <<>>
    /\ cur.timeZone = <<"UTC">>
    /\ cur.timeZone \notin SpanZones

\* A Post whose latitude is not finite, under the same span: it has the span's
\* zone.
C28_UnusableWitness ==
    /\ pc = "role"
    /\ index < Len(filteredPosts)
    /\ PostAtIndex.entry.location.present
    /\ PostAtIndex.entry.location.latitude.kind = "nonfinite"
    /\ ~cur.location.defined
    /\ cur.timeZone \in SpanZones
    /\ fallbackTimezone = <<"UTC">>

\* A located Post whose lookup fails, with no fallback zone, under a span that
\* covers its instant: the run fails.
C28_FailedWitness ==
    /\ pc = "failed"
    /\ outcome.error.kind = "zoneLookup"
    /\ timezoneOverrides # <<>>
    /\ index < Len(filteredPosts)
    /\ HasUsableLocation(PostAtIndex.entry.location)
    /\ findTimezoneFromOverrides(PostAtIndex.takenAt, timezoneOverrides) # <<>>


(***************************************************************************)
(* The page: only the latest request writes                                *)
(***************************************************************************)
\* The latest call of handleFile, and whether it is over.
LatestRequest == page.requests[Len(page.requests)]

LatestSettled == page.requests # <<>> /\ LatestRequest.state = "returned"

\* What the page shows for a file once its request is over: the bounds and the
\* two dates of the file, or no bounds and empty dates.
ShowsBoundsOf(file) ==
    IF file # "null" /\ ExportDateBoundsOf(file).kind = "bounds"
    THEN /\ page.dateBounds = ExportDateBoundsOf(file)
         /\ page.sinceDate = ExportDateBoundsOf(file).earliestDate
         /\ page.endDate = ExportDateBoundsOf(file).latestDate
    ELSE /\ page.dateBounds = PageNull
         /\ page.sinceDate = ""
         /\ page.endDate = ""

\* While the latest request is awaited the page is detecting and shows no
\* bounds; once it is over the page is not detecting and shows what belongs to
\* the latest file.
C29_LatestShown ==
    page.requests # <<>> =>
        /\ page.file = LatestRequest.file
        /\ page.requestId = Len(page.requests)
        /\ LatestRequest.state = "pending" =>
              (page.isDetectingDateBounds /\ page.dateBounds = PageNull)
        /\ LatestRequest.state = "returned" =>
              (~page.isDetectingDateBounds /\ ShowsBoundsOf(LatestRequest.file))

\* The requests that a step completes.
CompletedBy(requestId) ==
    /\ requestId \in 1..Len(page.requests)
    /\ page.requests[requestId].state = "pending"
    /\ Len(page'.requests) = Len(page.requests)
    /\ page'.requests[requestId].state = "returned"

\* The completion of a request that is not the latest writes nothing.
C29_StaleWritesNothing ==
    \A requestId \in 1..Len(page.requests) :
        (CompletedBy(requestId) /\ requestId # Len(page.requests)) =>
            /\ page'.dateBounds = page.dateBounds
            /\ page'.sinceDate = page.sinceDate
            /\ page'.endDate = page.endDate
            /\ page'.isDetectingDateBounds = page.isDetectingDateBounds
            /\ page'.file = page.file

\* C29: for any interleaving of file selections and completions of their
\* extractExportDateBounds requests, only the most recent request writes
\* dateBounds, sinceDate and endDate and clears isDetectingDateBounds: the result
\* or failure of a stale request never overwrites the state of a newer file, and
\* once the latest request is over isDetectingDateBounds is false.
C29_OnlyLatestWrites == []C29_LatestShown /\ [][C29_StaleWritesNothing]_vars

\* march.zip was selected, then april.zip; the request of april.zip completed
\* first and the request of march.zip after it: the page shows April.
C29_Witness ==
    /\ Len(page.requests) = 2
    /\ page.requests[1] = [file |-> "march.zip", state |-> "returned"]
    /\ page.requests[2] = [file |-> "april.zip", state |-> "returned"]
    /\ page.dateBounds = PageBounds("2024-04-01", "2024-04-07")
    /\ page.sinceDate = "2024-04-01"
    /\ ~page.isDetectingDateBounds

\* A file was selected and then removed, and its request failed afterwards;
\* a stale request completed while the latest one is awaited.
C29_RemovedWitness ==
    /\ Len(page.requests) = 2
    /\ page.requests[1] = [file |-> "notes.txt", state |-> "returned"]
    /\ page.requests[2].file = "null"
    /\ page.dateBounds = PageNull
    /\ ~page.isDetectingDateBounds

C29_StaleFirstWitness ==
    /\ Len(page.requests) = 2
    /\ page.requests[1] = [file |-> "march.zip", state |-> "returned"]
    /\ page.requests[2] = [file |-> "undated.zip", state |-> "pending"]
    /\ page.isDetectingDateBounds
    /\ page.dateBounds = PageNull


(***************************************************************************)
(* The server route: nothing is written outside the temporary directory    *)
(***************************************************************************)
\* A path is destDir or lies below it.
InsideDestDir(path) == Len(path) >= Len(DestDir) /\ SubSeq(path, 1, Len(DestDir)) = DestDir

\* The files and directories a call of extractZipSafely has made so far.
MadeByExtraction == (server.dirs \cup server.files) \ NoServer.dirs

\* The entry of the next pass of the loop, and the pass that skips it.
NextZipEntry == server.entries[server.i + 1]

SkipsEntry ==
    /\ server'.pc = "extracting"
    /\ server'.i = server.i + 1
    /\ server'.dirs = server.dirs
    /\ server'.files = server.files
    /\ server'.extractedCount = server.extractedCount

\* An entry the code judges unsafe is skipped and the extraction goes on.
C30_UnsafeSkipped ==
    (/\ server.pc = "extracting"
     /\ server.i < Len(server.entries)
     /\ ~isSafeEntry(DestDir, NextZipEntry.entryName)) => SkipsEntry

\* C30: extractZipSafely never creates or writes a file or directory outside
\* destDir, for any entry name of the uploaded archive, names with ".." segments
\* that resolve to a sibling directory whose path starts with the path of
\* destDir included; entries judged unsafe are skipped without aborting the
\* extraction.
C30_NothingOutsideDestDir ==
    [](\A path \in MadeByExtraction : InsideDestDir(path)) /\ [][C30_UnsafeSkipped]_vars

\* The entries that leave the directory for another part of the tree are
\* skipped and the extraction ends with the files of the export in place.
C30_Witness ==
    /\ server.pc = "done"
    /\ Len(server.entries) = 3
    /\ server.entries[1].entryName = <<"..", "/", "evil.sh">>
    /\ server.entries[2].entryName = <<"/", "etc", "/", "passwd">>
    /\ server.entries[3].entryName = <<"Photos", "/", "a.webp">>
    /\ server.files = {DestDir \o << <<"Photos">>, <<"a.webp">> >>}
    /\ server.extractedCount = 1

\* ../bereal-Ab12Cd-old/evil.sh is written beside the temporary directory.
C30_SiblingWritten ==
    /\ << <<"tmp">>, <<"bereal-", "Ab12Cd", "-old">>, <<"evil.sh">> >> \in server.files
    /\ << <<"tmp">>, <<"bereal-", "Ab12Cd", "-old">> >> \in server.dirs

====
